---------------------------- MODULE Spec2Model ----------------------------
(***************************************************************************)
(* Ordered containers of Ch17: the plain binary search tree                *)
(* (simple_bst.c), the AVL tree (avl_bst.c), the red-black tree            *)
(* (rb_bst.c) and the binary max-heap (heap.c).                            *)
(*                                                                         *)
(* A tree is a value: NULL, or a record holding the node's fields and its  *)
(* two subtrees.  A C function that takes a root pointer, updates nodes in *)
(* place and returns the new root is an operator from the old tree to the  *)
(* new one.  Reading a field of NULL is an evaluation error, as it is      *)
(* undefined in C.                                                         *)
(***************************************************************************)
EXTENDS Integers, Sequences, FiniteSets

VARIABLES bst, bst_pre, avl, avl_pre, rb, rb_pre,
          hp, hp_pre, hp_status, added,
          queue, queue_pre, queue_status, queued, stored, sorted_run, last,
          sort_array, sort_n, sort_entry, sort_heap, sort_i, sort_pc, sort_steps

\* Largest key of the calls made on the plain BST and the AVL tree together,
\* and on the red-black tree when nodes are added and removed.
MaxVal == 6

Values == 1..MaxVal

\* Largest key of the calls made on the AVL tree alone.
MaxAvlVal == 9

AvlValues == 1..MaxAvlVal

\* Largest key of the calls made on the red-black tree when nodes are only
\* added.
MaxRbAddVal == 9

RbAddValues == 1..MaxRbAddVal

\* Largest key of the calls made on the plain BST alone or on the AVL tree
\* alone when the nodes are counted.
MaxSizeVal == 8

SizeValues == 1..MaxSizeVal

NULL == [null |-> TRUE]

(***************************************************************************)
(* Plain BST, simple_bst.c                                                 *)
(***************************************************************************)

\* Mutant: the empty tree has height 0, as the comment of bst.h has it.
RECURSIVE bst_binary_tree_height_zero(_)
bst_binary_tree_height_zero(tree) ==
  IF tree = NULL THEN 0
  ELSE LET left  == bst_binary_tree_height_zero(tree.left)
           right == bst_binary_tree_height_zero(tree.right)
           max   == IF left > right THEN left ELSE right
       IN max + 1

RECURSIVE bst_binary_tree_height(_)
bst_binary_tree_height(tree) ==
  IF tree = NULL THEN -1
  ELSE LET left  == bst_binary_tree_height(tree.left)
           right == bst_binary_tree_height(tree.right)
           max   == IF left > right THEN left ELSE right
       IN max + 1

RECURSIVE bst_binary_tree_nodes(_)
bst_binary_tree_nodes(tree) ==
  IF tree = NULL THEN 0
  ELSE bst_binary_tree_nodes(tree.left) + bst_binary_tree_nodes(tree.right) + 1

\* Mutant: the value of the node itself, without going down to the left.
bst_min_value_node_top(node) == node.value

\* assert(node != NULL): the field read on NULL stops the evaluation.
RECURSIVE bst_min_value_node(_)
bst_min_value_node(node) ==
  IF node.left # NULL THEN bst_min_value_node(node.left) ELSE node.value

\* Mutant: a value equal to the one of the node goes to the right.
RECURSIVE bst_add_node_duplicates(_, _)
bst_add_node_duplicates(value, tree) ==
  IF tree = NULL THEN [value |-> value, left |-> NULL, right |-> NULL]
  ELSE IF tree.value > value
       THEN [tree EXCEPT !.left = bst_add_node_duplicates(value, tree.left)]
       ELSE [tree EXCEPT !.right = bst_add_node_duplicates(value, tree.right)]

RECURSIVE bst_add_node(_, _)
bst_add_node(value, tree) ==
  IF tree = NULL THEN [value |-> value, left |-> NULL, right |-> NULL]
  ELSE IF tree.value = value THEN tree
  ELSE IF tree.value > value
       THEN [tree EXCEPT !.left = bst_add_node(value, tree.left)]
       ELSE [tree EXCEPT !.right = bst_add_node(value, tree.right)]

RECURSIVE bst_find_node(_, _)
bst_find_node(value, tree) ==
  IF tree = NULL THEN FALSE
  ELSE IF tree.value = value THEN TRUE
  ELSE IF tree.value < value THEN bst_find_node(value, tree.right)
  ELSE bst_find_node(value, tree.left)

\* The values printed, in the order printed.
RECURSIVE bst_dump_tree(_, _)
bst_dump_tree(tree, ascending) ==
  IF tree = NULL THEN << >>
  ELSE IF ascending
       THEN (IF tree.left # NULL THEN bst_dump_tree(tree.left, ascending) ELSE << >>)
            \o << tree.value >>
            \o (IF tree.right # NULL THEN bst_dump_tree(tree.right, ascending) ELSE << >>)
       ELSE (IF tree.right # NULL THEN bst_dump_tree(tree.right, ascending) ELSE << >>)
            \o << tree.value >>
            \o (IF tree.left # NULL THEN bst_dump_tree(tree.left, ascending) ELSE << >>)

\* Mutant: a node without a right child is replaced by its right child too,
\* which drops its left subtree.
RECURSIVE bst_remove_node_right_only(_, _)
bst_remove_node_right_only(value, tree) ==
  IF tree = NULL THEN NULL
  ELSE IF value < tree.value
       THEN [tree EXCEPT !.left = bst_remove_node_right_only(value, tree.left)]
  ELSE IF value > tree.value
       THEN [tree EXCEPT !.right = bst_remove_node_right_only(value, tree.right)]
  ELSE IF tree.left = NULL THEN tree.right
  ELSE IF tree.right = NULL THEN tree.right
  ELSE LET temp_value == bst_min_value_node(tree.right)
       IN [tree EXCEPT !.value = temp_value,
                       !.right = bst_remove_node_right_only(temp_value, tree.right)]

RECURSIVE bst_remove_node(_, _)
bst_remove_node(value, tree) ==
  IF tree = NULL THEN NULL
  ELSE IF value < tree.value
       THEN [tree EXCEPT !.left = bst_remove_node(value, tree.left)]
  ELSE IF value > tree.value
       THEN [tree EXCEPT !.right = bst_remove_node(value, tree.right)]
  ELSE IF tree.left = NULL THEN tree.right
  ELSE IF tree.right = NULL THEN tree.left
  ELSE LET temp_value == bst_min_value_node(tree.right)
       IN [tree EXCEPT !.value = temp_value,
                       !.right = bst_remove_node(temp_value, tree.right)]

\* The number of calls of free that remove_node(value, tree) makes.
RECURSIVE bst_remove_node_frees(_, _)
bst_remove_node_frees(value, tree) ==
  IF tree = NULL THEN 0
  ELSE IF value < tree.value THEN bst_remove_node_frees(value, tree.left)
  ELSE IF value > tree.value THEN bst_remove_node_frees(value, tree.right)
  ELSE IF tree.left = NULL THEN 1
  ELSE IF tree.right = NULL THEN 1
  ELSE bst_remove_node_frees(bst_min_value_node(tree.right), tree.right)

(***************************************************************************)
(* AVL tree, avl_bst.c                                                     *)
(***************************************************************************)

max(a, b) == IF a > b THEN a ELSE b

\* Reads the stored field only.
avl_binary_tree_height(tree) ==
  IF tree = NULL THEN -1 ELSE tree.height

RECURSIVE avl_binary_tree_nodes(_)
avl_binary_tree_nodes(tree) ==
  IF tree = NULL THEN 0
  ELSE avl_binary_tree_nodes(tree.left) + avl_binary_tree_nodes(tree.right) + 1

RECURSIVE avl_min_value_node(_)
avl_min_value_node(node) ==
  IF node.left # NULL THEN avl_min_value_node(node.left) ELSE node.value

\* Mutant: the height of the new root is computed from the height the old
\* root had before the rotation.
avl_rotate_left_stale(tree) ==
  IF tree = NULL \/ tree.right = NULL THEN tree
  ELSE LET l  == avl_binary_tree_height(tree.left)
           rl == avl_binary_tree_height(tree.right.left)
           rr == avl_binary_tree_height(tree.right.right)
           new_root == tree.right
           down == [tree EXCEPT !.right = new_root.left,
                                !.height = 1 + max(l, rl)]
       IN [new_root EXCEPT !.left = down,
                           !.height = 1 + max(tree.height, rr)]

\* Mutant: a node without a right child is answered by NULL.
avl_rotate_left_null(tree) ==
  IF tree = NULL \/ tree.right = NULL THEN NULL
  ELSE LET l  == avl_binary_tree_height(tree.left)
           rl == avl_binary_tree_height(tree.right.left)
           rr == avl_binary_tree_height(tree.right.right)
           new_root == tree.right
           down == [tree EXCEPT !.right = new_root.left,
                                !.height = 1 + max(l, rl)]
       IN [new_root EXCEPT !.left = down,
                           !.height = 1 + max(down.height, rr)]

avl_rotate_left(tree) ==
  IF tree = NULL \/ tree.right = NULL THEN tree
  ELSE LET l  == avl_binary_tree_height(tree.left)
           rl == avl_binary_tree_height(tree.right.left)
           rr == avl_binary_tree_height(tree.right.right)
           new_root == tree.right
           down == [tree EXCEPT !.right = new_root.left,
                                !.height = 1 + max(l, rl)]
       IN [new_root EXCEPT !.left = down,
                           !.height = 1 + max(down.height, rr)]

\* Mutant: the old root takes the left subtree of the new root, not the
\* right one.
avl_rotate_right_outer(tree) ==
  IF tree = NULL \/ tree.left = NULL THEN tree
  ELSE LET r  == avl_binary_tree_height(tree.right)
           ll == avl_binary_tree_height(tree.left.left)
           lr == avl_binary_tree_height(tree.left.right)
           new_root == tree.left
           down == [tree EXCEPT !.left = new_root.left,
                                !.height = 1 + max(lr, r)]
       IN [new_root EXCEPT !.right = down,
                           !.height = 1 + max(ll, down.height)]

avl_rotate_right(tree) ==
  IF tree = NULL \/ tree.left = NULL THEN tree
  ELSE LET r  == avl_binary_tree_height(tree.right)
           ll == avl_binary_tree_height(tree.left.left)
           lr == avl_binary_tree_height(tree.left.right)
           new_root == tree.left
           down == [tree EXCEPT !.left = new_root.right,
                                !.height = 1 + max(lr, r)]
       IN [new_root EXCEPT !.right = down,
                           !.height = 1 + max(ll, down.height)]

\* Mutant: the search goes down the left subtree for a larger value.
RECURSIVE avl_find_node_left(_, _)
avl_find_node_left(value, tree) ==
  IF tree = NULL THEN FALSE
  ELSE IF tree.value = value THEN TRUE
  ELSE IF tree.value < value THEN avl_find_node_left(value, tree.left)
  ELSE avl_find_node_left(value, tree.right)

RECURSIVE avl_find_node(_, _)
avl_find_node(value, tree) ==
  IF tree = NULL THEN FALSE
  ELSE IF tree.value = value THEN TRUE
  ELSE IF tree.value < value THEN avl_find_node(value, tree.right)
  ELSE avl_find_node(value, tree.left)

RECURSIVE avl_dump_tree(_, _)
avl_dump_tree(tree, ascending) ==
  IF tree = NULL THEN << >>
  ELSE IF ascending
       THEN (IF tree.left # NULL THEN avl_dump_tree(tree.left, ascending) ELSE << >>)
            \o << tree.value >>
            \o (IF tree.right # NULL THEN avl_dump_tree(tree.right, ascending) ELSE << >>)
       ELSE (IF tree.right # NULL THEN avl_dump_tree(tree.right, ascending) ELSE << >>)
            \o << tree.value >>
            \o (IF tree.left # NULL THEN avl_dump_tree(tree.left, ascending) ELSE << >>)

\* Mutant: the subtree is rotated as soon as one side is taller.
avl_add_rebalance_eager(value, tree) ==
  LET left_height  == avl_binary_tree_height(tree.left)
      right_height == avl_binary_tree_height(tree.right)
      t1 == [tree EXCEPT !.height =
               1 + (IF left_height < right_height THEN right_height ELSE left_height)]
  IN IF left_height - right_height > 0
     THEN LET t2 == IF t1.left # NULL /\ value > t1.left.value
                    THEN [t1 EXCEPT !.left = avl_rotate_left(t1.left)]
                    ELSE t1
          IN avl_rotate_right(t2)
     ELSE IF right_height - left_height > 0
     THEN LET t2 == IF t1.right # NULL /\ value < t1.right.value
                    THEN [t1 EXCEPT !.right = avl_rotate_right(t1.right)]
                    ELSE t1
          IN avl_rotate_left(t2)
     ELSE t1

\* Mutant: only a subtree whose right side is too tall is rotated.
avl_add_rebalance_right_only(value, tree) ==
  LET left_height  == avl_binary_tree_height(tree.left)
      right_height == avl_binary_tree_height(tree.right)
      t1 == [tree EXCEPT !.height =
               1 + (IF left_height < right_height THEN right_height ELSE left_height)]
  IN IF right_height - left_height > 1
     THEN LET t2 == IF t1.right # NULL /\ value < t1.right.value
                    THEN [t1 EXCEPT !.right = avl_rotate_right(t1.right)]
                    ELSE t1
          IN avl_rotate_left(t2)
     ELSE t1

\* Mutant: the subtree is rotated only when one side is taller by more
\* than 2.
avl_add_rebalance_late(value, tree) ==
  LET left_height  == avl_binary_tree_height(tree.left)
      right_height == avl_binary_tree_height(tree.right)
      t1 == [tree EXCEPT !.height =
               1 + (IF left_height < right_height THEN right_height ELSE left_height)]
  IN IF left_height - right_height > 2
     THEN LET t2 == IF t1.left # NULL /\ value > t1.left.value
                    THEN [t1 EXCEPT !.left = avl_rotate_left(t1.left)]
                    ELSE t1
          IN avl_rotate_right(t2)
     ELSE IF right_height - left_height > 2
     THEN LET t2 == IF t1.right # NULL /\ value < t1.right.value
                    THEN [t1 EXCEPT !.right = avl_rotate_right(t1.right)]
                    ELSE t1
          IN avl_rotate_left(t2)
     ELSE t1

\* add_node, lines 281-303: the height is recomputed, then the subtree is
\* rotated when one side is taller by more than 1; the inserted value picks
\* between the single and the double rotation.
avl_add_rebalance(value, tree) ==
  LET left_height  == avl_binary_tree_height(tree.left)
      right_height == avl_binary_tree_height(tree.right)
      t1 == [tree EXCEPT !.height =
               1 + (IF left_height < right_height THEN right_height ELSE left_height)]
  IN IF left_height - right_height > 1
     THEN LET t2 == IF t1.left # NULL /\ value > t1.left.value
                    THEN [t1 EXCEPT !.left = avl_rotate_left(t1.left)]
                    ELSE t1
          IN avl_rotate_right(t2)
     ELSE IF right_height - left_height > 1
     THEN LET t2 == IF t1.right # NULL /\ value < t1.right.value
                    THEN [t1 EXCEPT !.right = avl_rotate_right(t1.right)]
                    ELSE t1
          IN avl_rotate_left(t2)
     ELSE t1

RECURSIVE avl_add_node(_, _)
avl_add_node(value, tree) ==
  LET t0 == IF tree = NULL
            THEN [value |-> value, height |-> 0, left |-> NULL, right |-> NULL]
            ELSE IF value < tree.value
            THEN [tree EXCEPT !.left = avl_add_node(value, tree.left)]
            ELSE IF value > tree.value
            THEN [tree EXCEPT !.right = avl_add_node(value, tree.right)]
            ELSE tree
  IN avl_add_rebalance(value, t0)

\* The subtrees add_node(value, tree) reaches line 281 with, from the
\* deepest call of the recursion up to the first.
RECURSIVE avl_add_unwind(_, _)
avl_add_unwind(value, tree) ==
  IF tree = NULL
  THEN << [value |-> value, height |-> 0, left |-> NULL, right |-> NULL] >>
  ELSE IF value < tree.value
  THEN Append(avl_add_unwind(value, tree.left),
              [tree EXCEPT !.left = avl_add_node(value, tree.left)])
  ELSE IF value > tree.value
  THEN Append(avl_add_unwind(value, tree.right),
              [tree EXCEPT !.right = avl_add_node(value, tree.right)])
  ELSE << tree >>

\* Mutant: a subtree that is too tall on one side is rotated once,
\* whichever way its taller child leans.
avl_remove_rebalance_single(tree) ==
  IF tree = NULL THEN tree
  ELSE
  LET left_height  == avl_binary_tree_height(tree.left)
      right_height == avl_binary_tree_height(tree.right)
      t1 == [tree EXCEPT !.height = 1 + max(left_height, right_height)]
  IN IF left_height - right_height > 1 THEN avl_rotate_right(t1)
     ELSE IF right_height - left_height > 1 THEN avl_rotate_left(t1)
     ELSE t1

\* Mutant: the height is recomputed from the left subtree alone.
avl_remove_rebalance_left_height(tree) ==
  IF tree = NULL THEN tree
  ELSE
  LET left_height  == avl_binary_tree_height(tree.left)
      right_height == avl_binary_tree_height(tree.right)
      t1 == [tree EXCEPT !.height = 1 + left_height]
  IN IF left_height - right_height > 1
     THEN IF t1.left # NULL /\ avl_binary_tree_height(t1.left.left)
                                 >= avl_binary_tree_height(t1.left.right)
          THEN avl_rotate_right(t1)
          ELSE avl_rotate_right([t1 EXCEPT !.left = avl_rotate_left(t1.left)])
     ELSE IF right_height - left_height > 1
     THEN IF t1.right # NULL /\ avl_binary_tree_height(t1.right.right)
                                  >= avl_binary_tree_height(t1.right.left)
          THEN avl_rotate_left(t1)
          ELSE avl_rotate_left([t1 EXCEPT !.right = avl_rotate_right(t1.right)])
     ELSE t1

\* Mutant: the single rotation is chosen only when the outer grandchild is
\* strictly taller than the inner one.
avl_remove_rebalance_strict(tree) ==
  IF tree = NULL THEN tree
  ELSE
  LET left_height  == avl_binary_tree_height(tree.left)
      right_height == avl_binary_tree_height(tree.right)
      t1 == [tree EXCEPT !.height = 1 + max(left_height, right_height)]
  IN IF left_height - right_height > 1
     THEN IF t1.left # NULL /\ avl_binary_tree_height(t1.left.left)
                                 > avl_binary_tree_height(t1.left.right)
          THEN avl_rotate_right(t1)
          ELSE avl_rotate_right([t1 EXCEPT !.left = avl_rotate_left(t1.left)])
     ELSE IF right_height - left_height > 1
     THEN IF t1.right # NULL /\ avl_binary_tree_height(t1.right.right)
                                  > avl_binary_tree_height(t1.right.left)
          THEN avl_rotate_left(t1)
          ELSE avl_rotate_left([t1 EXCEPT !.right = avl_rotate_right(t1.right)])
     ELSE t1

\* remove_node, lines 347-373 (step 2): nothing for the empty subtree;
\* otherwise the height is recomputed and the taller grandchild picks
\* between the single and the double rotation.
avl_remove_rebalance(tree) ==
  IF tree = NULL THEN tree
  ELSE
  LET left_height  == avl_binary_tree_height(tree.left)
      right_height == avl_binary_tree_height(tree.right)
      t1 == [tree EXCEPT !.height = 1 + max(left_height, right_height)]
  IN IF left_height - right_height > 1
     THEN IF t1.left # NULL /\ avl_binary_tree_height(t1.left.left)
                                 >= avl_binary_tree_height(t1.left.right)
          THEN avl_rotate_right(t1)
          ELSE avl_rotate_right([t1 EXCEPT !.left = avl_rotate_left(t1.left)])
     ELSE IF right_height - left_height > 1
     THEN IF t1.right # NULL /\ avl_binary_tree_height(t1.right.right)
                                  >= avl_binary_tree_height(t1.right.left)
          THEN avl_rotate_left(t1)
          ELSE avl_rotate_left([t1 EXCEPT !.right = avl_rotate_right(t1.right)])
     ELSE t1

RECURSIVE avl_remove_node(_, _)
avl_remove_node(value, tree) ==
  IF tree = NULL THEN NULL
  ELSE
  LET t0 == IF value < tree.value
            THEN [tree EXCEPT !.left = avl_remove_node(value, tree.left)]
            ELSE IF value > tree.value
            THEN [tree EXCEPT !.right = avl_remove_node(value, tree.right)]
            ELSE IF tree.left = NULL THEN tree.right
            ELSE IF tree.right = NULL THEN tree.left
            ELSE LET temp_value == avl_min_value_node(tree.right)
                 IN [tree EXCEPT !.value = temp_value,
                                 !.right = avl_remove_node(temp_value, tree.right)]
  IN avl_remove_rebalance(t0)

\* The subtrees remove_node(value, tree) reaches step 2 with, one for each
\* call of the recursion that does not return at line 348.
RECURSIVE avl_remove_unwind(_, _)
avl_remove_unwind(value, tree) ==
  IF tree = NULL THEN {}
  ELSE IF value < tree.value
  THEN {[tree EXCEPT !.left = avl_remove_node(value, tree.left)]}
         \cup avl_remove_unwind(value, tree.left)
  ELSE IF value > tree.value
  THEN {[tree EXCEPT !.right = avl_remove_node(value, tree.right)]}
         \cup avl_remove_unwind(value, tree.right)
  ELSE IF tree.left = NULL THEN {tree.right} \ {NULL}
  ELSE IF tree.right = NULL THEN {tree.left} \ {NULL}
  ELSE LET temp_value == avl_min_value_node(tree.right)
       IN {[tree EXCEPT !.value = temp_value,
                        !.right = avl_remove_node(temp_value, tree.right)]}
            \cup avl_remove_unwind(temp_value, tree.right)

\* The number of calls of free that remove_node(value, tree) makes.
RECURSIVE avl_remove_node_frees(_, _)
avl_remove_node_frees(value, tree) ==
  IF tree = NULL THEN 0
  ELSE IF value < tree.value THEN avl_remove_node_frees(value, tree.left)
  ELSE IF value > tree.value THEN avl_remove_node_frees(value, tree.right)
  ELSE IF tree.left = NULL THEN 1
  ELSE IF tree.right = NULL THEN 1
  ELSE avl_remove_node_frees(avl_min_value_node(tree.right), tree.right)

(***************************************************************************)
(* Red-black tree, rb_bst.c                                                *)
(***************************************************************************)

RED == "RED"
BLACK == "BLACK"

RECURSIVE rb_binary_tree_nodes(_)
rb_binary_tree_nodes(tree) ==
  IF tree = NULL THEN 0
  ELSE rb_binary_tree_nodes(tree.left) + rb_binary_tree_nodes(tree.right) + 1

RECURSIVE rb_min_value_node(_)
rb_min_value_node(node) ==
  IF node.left # NULL THEN rb_min_value_node(node.left) ELSE node.value

\* The two rotations are left to the reader in rb_bst.c; they are the
\* rotations of section 4.1: relinking only, no colour is touched, and a
\* node without the child to promote is returned as it is.
rb_rotate_left(tree) ==
  IF tree = NULL \/ tree.right = NULL THEN tree
  ELSE LET new_root == tree.right
       IN [new_root EXCEPT !.left = [tree EXCEPT !.right = new_root.left]]

rb_rotate_right(tree) ==
  IF tree = NULL \/ tree.left = NULL THEN tree
  ELSE LET new_root == tree.left
       IN [new_root EXCEPT !.right = [tree EXCEPT !.left = new_root.right]]

\* Mutant: the left-right pattern rotates without recolouring the left
\* child.
rb_fix_red_black_no_recolor(root) ==
  IF /\ root.left # NULL /\ root.left.color = RED
     /\ root.left.left # NULL /\ root.left.left.color = RED
  THEN rb_rotate_right([root EXCEPT !.left.left.color = BLACK])
  ELSE IF /\ root.left # NULL /\ root.left.color = RED
          /\ root.left.right # NULL /\ root.left.right.color = RED
  THEN LET r2 == [root EXCEPT !.left = rb_rotate_left(root.left)]
       IN rb_rotate_right(r2)
  ELSE IF /\ root.right # NULL /\ root.right.color = RED
          /\ root.right.right # NULL /\ root.right.right.color = RED
  THEN rb_rotate_left([root EXCEPT !.right.right.color = BLACK])
  ELSE IF /\ root.right # NULL /\ root.right.color = RED
          /\ root.right.left # NULL /\ root.right.left.color = RED
  THEN LET r1 == [root EXCEPT !.right.color = BLACK]
           r2 == [r1 EXCEPT !.right = rb_rotate_right(r1.right)]
       IN rb_rotate_left(r2)
  ELSE root

\* Mutant: the two patterns of the right side are tested before the two
\* of the left side.
rb_fix_red_black_right_first(root) ==
  IF /\ root.right # NULL /\ root.right.color = RED
     /\ root.right.right # NULL /\ root.right.right.color = RED
  THEN rb_rotate_left([root EXCEPT !.right.right.color = BLACK])
  ELSE IF /\ root.right # NULL /\ root.right.color = RED
          /\ root.right.left # NULL /\ root.right.left.color = RED
  THEN LET r1 == [root EXCEPT !.right.color = BLACK]
           r2 == [r1 EXCEPT !.right = rb_rotate_right(r1.right)]
       IN rb_rotate_left(r2)
  ELSE IF /\ root.left # NULL /\ root.left.color = RED
          /\ root.left.left # NULL /\ root.left.left.color = RED
  THEN rb_rotate_right([root EXCEPT !.left.left.color = BLACK])
  ELSE IF /\ root.left # NULL /\ root.left.color = RED
          /\ root.left.right # NULL /\ root.left.right.color = RED
  THEN LET r1 == [root EXCEPT !.left.color = BLACK]
           r2 == [r1 EXCEPT !.left = rb_rotate_left(r1.left)]
       IN rb_rotate_right(r2)
  ELSE root

rb_fix_red_black(root) ==
  IF /\ root.left # NULL /\ root.left.color = RED
     /\ root.left.left # NULL /\ root.left.left.color = RED
  THEN rb_rotate_right([root EXCEPT !.left.left.color = BLACK])
  ELSE IF /\ root.left # NULL /\ root.left.color = RED
          /\ root.left.right # NULL /\ root.left.right.color = RED
  THEN LET r1 == [root EXCEPT !.left.color = BLACK]
           r2 == [r1 EXCEPT !.left = rb_rotate_left(r1.left)]
       IN rb_rotate_right(r2)
  ELSE IF /\ root.right # NULL /\ root.right.color = RED
          /\ root.right.right # NULL /\ root.right.right.color = RED
  THEN rb_rotate_left([root EXCEPT !.right.right.color = BLACK])
  ELSE IF /\ root.right # NULL /\ root.right.color = RED
          /\ root.right.left # NULL /\ root.right.left.color = RED
  THEN LET r1 == [root EXCEPT !.right.color = BLACK]
           r2 == [r1 EXCEPT !.right = rb_rotate_right(r1.right)]
       IN rb_rotate_left(r2)
  ELSE root

RECURSIVE rb_add_node_rec(_, _)
rb_add_node_rec(value, root) ==
  IF root = NULL
  THEN [value |-> value, left |-> NULL, right |-> NULL, color |-> RED]
  ELSE IF value < root.value
  THEN rb_fix_red_black([root EXCEPT !.left = rb_add_node_rec(value, root.left)])
  ELSE IF value > root.value
  THEN rb_fix_red_black([root EXCEPT !.right = rb_add_node_rec(value, root.right)])
  ELSE root

\* Mutant: the root is left with the colour add_node_rec gives it.
rb_add_node_unforced(value, root) == rb_add_node_rec(value, root)

rb_add_node(value, root) ==
  [rb_add_node_rec(value, root) EXCEPT !.color = BLACK]

\* A node is named by the path of links that leads to it from the root
\* the function was called on; NoNode is the NULL result.
NoNode == << "NULL" >>

Below(link, path) == IF path = NoNode THEN NoNode ELSE << link >> \o path

RECURSIVE NodeAt(_, _)
NodeAt(tree, path) ==
  IF path = << >> THEN tree ELSE NodeAt(tree[Head(path)], Tail(path))

RECURSIVE StoreAt(_, _, _)
StoreAt(tree, path, node) ==
  IF path = << >> THEN node
  ELSE [tree EXCEPT ![Head(path)] = StoreAt(tree[Head(path)], Tail(path), node)]

\* Mutant: called on the node that holds the value, the function returns
\* that node.
RECURSIVE rb_find_parent_self(_, _)
rb_find_parent_self(value, root) ==
  IF root = NULL \/ (root.left = NULL /\ root.right = NULL) THEN NoNode
  ELSE IF \/ (root.left # NULL /\ root.left.value = value)
          \/ (root.right # NULL /\ root.right.value = value)
  THEN << >>
  ELSE IF value < root.value
  THEN Below("left", rb_find_parent_self(value, root.left))
  ELSE IF value > root.value
  THEN Below("right", rb_find_parent_self(value, root.right))
  ELSE << >>

RECURSIVE rb_find_parent(_, _)
rb_find_parent(value, root) ==
  IF root = NULL \/ (root.left = NULL /\ root.right = NULL) THEN NoNode
  ELSE IF \/ (root.left # NULL /\ root.left.value = value)
          \/ (root.right # NULL /\ root.right.value = value)
  THEN << >>
  ELSE IF value < root.value THEN Below("left", rb_find_parent(value, root.left))
  ELSE IF value > root.value THEN Below("right", rb_find_parent(value, root.right))
  ELSE NoNode

\* remove_node, lines 476-524: the node to remove is root, its parent was
\* found at parent_path below root.  The value is the subtree the function
\* returns; "deref" records that the code reads a field of NULL.
rb_remove_with_parent(root, parent_path) ==
  LET parent == NodeAt(root, parent_path)
      \* parent->left == root: root is the node at the empty path
      side == IF parent_path \o << "left" >> = << >> THEN "right" ELSE "left"
      sibling == parent[side]
  IN IF sibling = NULL THEN root
     ELSE IF sibling.color = RED
     THEN \* Case 3.1
          LET p1 == [parent EXCEPT ![side].color = BLACK, !.color = RED]
          IN IF side = "right" THEN rb_rotate_left(p1) ELSE rb_rotate_right(p1)
     ELSE IF /\ (sibling.left = NULL \/ sibling.left.color = BLACK)
             /\ (sibling.right = NULL \/ sibling.right.color = BLACK)
     THEN \* Case 3.2
          StoreAt(root, parent_path,
                  [parent EXCEPT ![side].color = RED, !.color = BLACK])
     ELSE \* Case 3.3
          LET first == sibling.left # NULL /\ sibling.left.color = RED
              \* bst_rotate_right(sibling): the parent's link still leads to
              \* the old sibling node, root leads to its former left child
              sib1 == IF first THEN [sibling EXCEPT !.left = sibling.left.right]
                      ELSE sibling
              root1 == IF first
                       THEN [sibling.left EXCEPT !.color = BLACK, !.right = sib1]
                       ELSE root
              p1 == [parent EXCEPT ![side] = sib1]
              sibling2 == IF first THEN p1.right ELSE sib1
          IN IF sibling2 = NULL THEN "deref"
             ELSE IF sibling2.right # NULL /\ sibling2.right.color = RED
             THEN LET inplace == IF first \/ side = "right"
                                 THEN [p1 EXCEPT !.right.color = p1.color,
                                                 !.right.right.color = BLACK,
                                                 !.color = BLACK]
                                 ELSE [p1 EXCEPT !.left.color = p1.color,
                                                 !.left.right.color = BLACK,
                                                 !.color = BLACK]
                  IN rb_rotate_left(inplace)
             ELSE root1

\* Mutant: in the cases 2.1 and 2.2 the child takes the place of the node
\* with the colour it has.
RECURSIVE rb_remove_node_keeps_red(_, _)
rb_remove_node_keeps_red(value, root) ==
  IF root = NULL THEN root
  ELSE IF value < root.value
  THEN [root EXCEPT !.left = rb_remove_node_keeps_red(value, root.left)]
  ELSE IF value > root.value
  THEN [root EXCEPT !.right = rb_remove_node_keeps_red(value, root.right)]
  ELSE IF root.color = RED
  THEN \* Case 1
       IF root.left = NULL /\ root.right = NULL THEN NULL
       ELSE IF root.left = NULL \/ root.right = NULL
       THEN (IF root.left # NULL THEN root.left ELSE root.right)
       ELSE LET successor_value == rb_min_value_node(root.right)
            IN [root EXCEPT !.value = successor_value,
                            !.right = rb_remove_node_keeps_red(successor_value, root.right)]
  ELSE IF root.right # NULL /\ root.right.color = RED /\ root.left = NULL
  THEN \* Case 2.1
       root.right
  ELSE IF root.left # NULL /\ root.left.color = RED /\ root.right = NULL
  THEN \* Case 2.2
       root.left
  ELSE IF /\ root.left # NULL /\ root.left.color = RED
          /\ root.right # NULL /\ root.right.color = RED
  THEN \* Case 2.3, lines 451-459
       LET successor_value == rb_min_value_node(root.right)
       IN [root EXCEPT !.value = successor_value,
                       !.right = rb_remove_node_keeps_red(successor_value, root.right)]
  ELSE IF /\ root.left # NULL /\ root.left.color = RED
          /\ root.right # NULL /\ root.right.color = RED
  THEN \* Case 2.3 again, lines 461-472
       LET successor_value == rb_min_value_node(root.right)
           r1 == [root EXCEPT !.left.color = BLACK, !.right.color = BLACK]
       IN [r1 EXCEPT !.value = successor_value,
                     !.right = rb_remove_node_keeps_red(successor_value, r1.right)]
  ELSE \* Case 3
       LET parent == rb_find_parent(value, root)
       IN IF parent # NoNode THEN rb_remove_with_parent(root, parent)
          ELSE IF root.right # NULL
          THEN LET successor_value == rb_min_value_node(root.right)
               IN [root EXCEPT !.value = successor_value,
                               !.right = rb_remove_node_keeps_red(successor_value, root.right)]
          ELSE NULL

RECURSIVE rb_remove_node(_, _)
rb_remove_node(value, root) ==
  IF root = NULL THEN root
  ELSE IF value < root.value
  THEN [root EXCEPT !.left = rb_remove_node(value, root.left)]
  ELSE IF value > root.value
  THEN [root EXCEPT !.right = rb_remove_node(value, root.right)]
  ELSE IF root.color = RED
  THEN \* Case 1
       IF root.left = NULL /\ root.right = NULL THEN NULL
       ELSE IF root.left = NULL \/ root.right = NULL
       THEN (IF root.left # NULL THEN root.left ELSE root.right)
       ELSE LET successor_value == rb_min_value_node(root.right)
            IN [root EXCEPT !.value = successor_value,
                            !.right = rb_remove_node(successor_value, root.right)]
  ELSE IF root.right # NULL /\ root.right.color = RED /\ root.left = NULL
  THEN \* Case 2.1
       [root.right EXCEPT !.color = BLACK]
  ELSE IF root.left # NULL /\ root.left.color = RED /\ root.right = NULL
  THEN \* Case 2.2
       [root.left EXCEPT !.color = BLACK]
  ELSE IF /\ root.left # NULL /\ root.left.color = RED
          /\ root.right # NULL /\ root.right.color = RED
  THEN \* Case 2.3, lines 451-459
       LET successor_value == rb_min_value_node(root.right)
       IN [root EXCEPT !.value = successor_value,
                       !.right = rb_remove_node(successor_value, root.right)]
  ELSE IF /\ root.left # NULL /\ root.left.color = RED
          /\ root.right # NULL /\ root.right.color = RED
  THEN \* Case 2.3 again, lines 461-472
       LET successor_value == rb_min_value_node(root.right)
           r1 == [root EXCEPT !.left.color = BLACK, !.right.color = BLACK]
       IN [r1 EXCEPT !.value = successor_value,
                     !.right = rb_remove_node(successor_value, r1.right)]
  ELSE \* Case 3
       LET parent == rb_find_parent(value, root)
       IN IF parent # NoNode THEN rb_remove_with_parent(root, parent)
          ELSE IF root.right # NULL
          THEN LET successor_value == rb_min_value_node(root.right)
               IN [root EXCEPT !.value = successor_value,
                               !.right = rb_remove_node(successor_value, root.right)]
          ELSE NULL

\* The calls of find_parent that remove_node(value, root) makes, each as
\* the pair of its arguments: one at each node where case 3 is reached.
RECURSIVE rb_find_parent_calls(_, _)
rb_find_parent_calls(value, root) ==
  IF root = NULL THEN {}
  ELSE IF value < root.value THEN rb_find_parent_calls(value, root.left)
  ELSE IF value > root.value THEN rb_find_parent_calls(value, root.right)
  ELSE IF root.color = RED
  THEN IF root.left = NULL \/ root.right = NULL THEN {}
       ELSE rb_find_parent_calls(rb_min_value_node(root.right), root.right)
  ELSE IF root.right # NULL /\ root.right.color = RED /\ root.left = NULL
  THEN {}
  ELSE IF root.left # NULL /\ root.left.color = RED /\ root.right = NULL
  THEN {}
  ELSE IF /\ root.left # NULL /\ root.left.color = RED
          /\ root.right # NULL /\ root.right.color = RED
  THEN rb_find_parent_calls(rb_min_value_node(root.right), root.right)
  ELSE {<< value, root >>} \cup
       (IF rb_find_parent(value, root) # NoNode THEN {}
        ELSE IF root.right # NULL
        THEN rb_find_parent_calls(rb_min_value_node(root.right), root.right)
        ELSE {})

\* The number of calls of free that remove_node(value, root) makes: one in
\* each of the cases 1 (leaf, one child), 2.1 and 2.2, none in case 3.
RECURSIVE rb_remove_node_frees(_, _)
rb_remove_node_frees(value, root) ==
  IF root = NULL THEN 0
  ELSE IF value < root.value THEN rb_remove_node_frees(value, root.left)
  ELSE IF value > root.value THEN rb_remove_node_frees(value, root.right)
  ELSE IF root.color = RED
  THEN IF root.left = NULL /\ root.right = NULL THEN 1
       ELSE IF root.left = NULL \/ root.right = NULL THEN 1
       ELSE rb_remove_node_frees(rb_min_value_node(root.right), root.right)
  ELSE IF root.right # NULL /\ root.right.color = RED /\ root.left = NULL
  THEN 1
  ELSE IF root.left # NULL /\ root.left.color = RED /\ root.right = NULL
  THEN 1
  ELSE IF /\ root.left # NULL /\ root.left.color = RED
          /\ root.right # NULL /\ root.right.color = RED
  THEN rb_remove_node_frees(rb_min_value_node(root.right), root.right)
  ELSE IF rb_find_parent(value, root) # NoNode THEN 0
  ELSE IF root.right # NULL
  THEN rb_remove_node_frees(rb_min_value_node(root.right), root.right)
  ELSE 0

(***************************************************************************)
(* Binary max-heap, heap.c                                                 *)
(***************************************************************************)

\* Number of slots of the array.  heap.c sets 1000; the model keeps the
\* heap small enough to be filled.
HEAP_MAX_SIZE == 5

\* Largest value added to the heap; the values are 4..MaxHeapVal.
MaxHeapVal == 7

HeapValues == 4..MaxHeapVal

\* A slot malloc returned and nothing has written yet.  It is no integer:
\* comparing it stops the evaluation.
Indeterminate == "indeterminate"

swap(array, a, b) == [array EXCEPT ![a] = array[b], ![b] = array[a]]

heap_create ==
  [array |-> [i \in 0..(HEAP_MAX_SIZE - 1) |-> Indeterminate], nb_elements |-> 0]

\* Mutant: the parent of slot i is taken to be slot i/2.
RECURSIVE heap_add_loop_parent(_, _)
heap_add_loop_parent(array, i) ==
  IF i > 0 /\ array[i] > array[i \div 2]
  THEN heap_add_loop_parent(swap(array, i, i \div 2), i \div 2)
  ELSE array

\* heap_add, the loop of lines 59-62
RECURSIVE heap_add_loop(_, _)
heap_add_loop(array, i) ==
  IF i > 0 /\ array[i] > array[(i - 1) \div 2]
  THEN heap_add_loop(swap(array, i, (i - 1) \div 2), (i - 1) \div 2)
  ELSE array

\* Mutant: the assertion lets a full heap through.
heap_add_has_space_inclusive(heap) == heap.nb_elements <= HEAP_MAX_SIZE

\* heap_add, the assertion of line 55
heap_add_has_space(heap) == heap.nb_elements < HEAP_MAX_SIZE

\* Called with nb_elements < HEAP_MAX_SIZE (the assertion of line 55).
heap_add(value, heap) ==
  LET i == heap.nb_elements
  IN [array |-> heap_add_loop([heap.array EXCEPT ![i] = value], i),
      nb_elements |-> heap.nb_elements + 1]

\* Mutant: only a negative count is taken for an empty heap.
heap_empty_negative(heap) == heap.nb_elements < 0

heap_empty(heap) == heap.nb_elements = 0

\* Called on a heap that is not empty (the assertion of line 84).
heap_peek(heap) == heap.array[0]

\* Mutant: the right child is compared with the slot i, not with the
\* larger of the slot i and the left child.
RECURSIVE heap_remove_loop_right(_, _, _)
heap_remove_loop_right(array, nb_elements, i) ==
  IF i < nb_elements
  THEN LET left_index  == i * 2 + 1
           right_index == i * 2 + 2
           l1 == IF left_index < nb_elements /\ array[left_index] > array[i]
                 THEN left_index ELSE i
           largest_index ==
                 IF right_index < nb_elements /\ array[right_index] > array[i]
                 THEN right_index ELSE l1
       IN IF largest_index = i THEN array
          ELSE heap_remove_loop_right(swap(array, i, largest_index), nb_elements,
                                      largest_index)
  ELSE array

\* heap_remove, the loop of lines 99-111
RECURSIVE heap_remove_loop(_, _, _)
heap_remove_loop(array, nb_elements, i) ==
  IF i < nb_elements
  THEN LET left_index  == i * 2 + 1
           right_index == i * 2 + 2
           l1 == IF left_index < nb_elements /\ array[left_index] > array[i]
                 THEN left_index ELSE i
           largest_index ==
                 IF right_index < nb_elements /\ array[right_index] > array[l1]
                 THEN right_index ELSE l1
       IN IF largest_index = i THEN array
          ELSE heap_remove_loop(swap(array, i, largest_index), nb_elements,
                                largest_index)
  ELSE array

\* Only heap != NULL is asserted.  On an empty heap array[nb_elements-1]
\* is array[-1], outside the array: the value read there is `stray`.
heap_remove(heap, stray) ==
  LET moved == IF heap.nb_elements - 1 \in DOMAIN heap.array
               THEN heap.array[heap.nb_elements - 1]
               ELSE stray
      nb == heap.nb_elements - 1
  IN [array |-> heap_remove_loop([heap.array EXCEPT ![0] = moved], nb, 0),
      nb_elements |-> nb]

(***************************************************************************)
(* Priority queue on the plain BST, priority_queue.c                       *)
(***************************************************************************)

queue_create == [inner_bst |-> NULL]

\* Mutant: the inner tree takes a value it holds once more.
queue_enqueue_duplicates(value, q) ==
  [q EXCEPT !.inner_bst = bst_add_node_duplicates(value, q.inner_bst)]

queue_enqueue(value, q) ==
  [q EXCEPT !.inner_bst = bst_add_node(value, q.inner_bst)]

queue_empty(q) == bst_binary_tree_nodes(q.inner_bst) = 0

\* min_value_node, the assertion of simple_bst.c line 136
bst_min_value_node_asserts(node) == node # NULL

\* Mutant: the head is the value at the root of the inner tree.
queue_peek_root(q) == q.inner_bst.value

\* Called on a queue that is not empty (the assertion of line 76).
queue_peek(q) == bst_min_value_node(q.inner_bst)

\* Called on a queue that is not empty (the assertion of line 89).
queue_dequeue(q) ==
  [q EXCEPT !.inner_bst = bst_remove_node(queue_peek(q), q.inner_bst)]

(***************************************************************************)
(* The programs: sequences of calls from the empty container               *)
(***************************************************************************)

vars == << bst, bst_pre, avl, avl_pre, rb, rb_pre,
           hp, hp_pre, hp_status, added,
           queue, queue_pre, queue_status, queued, stored, sorted_run,
           last,
           sort_array, sort_n, sort_entry, sort_heap, sort_i, sort_pc,
           sort_steps >>

bst_vars  == << bst, bst_pre >>
avl_vars  == << avl, avl_pre >>
rb_vars   == << rb, rb_pre >>
heap_vars == << hp, hp_pre, hp_status, added >>
queue_vars == << queue, queue_pre, queue_status, queued >>
calls == << stored, sorted_run >>
sort_vars == << sort_array, sort_n, sort_entry, sort_heap, sort_i, sort_pc,
               sort_steps >>

\* The multiset with one more / one less occurrence of v.
BagAdd(bag, v) == [bag EXCEPT ![v] = @ + 1]
BagRemove(bag, v) == [bag EXCEPT ![v] = @ - 1]
BagMax(bag) == CHOOSE v \in DOMAIN bag :
                 bag[v] > 0 /\ \A w \in DOMAIN bag : bag[w] > 0 => w <= v
BagSize(bag) ==
  LET RECURSIVE Sum(_)
      Sum(S) == IF S = {} THEN 0
                ELSE LET x == CHOOSE y \in S : TRUE IN bag[x] + Sum(S \ {x})
  IN Sum(DOMAIN bag)

\* bst, avl, rb: the root each program holds; *_pre: the root before the
\* last call.  hp_status: "running", or "aborted" once an assertion has
\* failed, or "undefined" once the array was accessed outside its bounds;
\* added: the multiset of the values added and not yet removed, a removal
\* taking one occurrence of the largest.  queue: the priority queue;
\* queue_status: "running", or "aborted" once an assertion has failed;
\* queued: the set of the values enqueued and not yet dequeued, a dequeue
\* taking the smallest.  stored: the set of the values added to the tree
\* and not removed since; sorted_run: n when the calls made on the tree
\* are add_node of 1, 2, ..., n in this order, -1 when they are not such a
\* run.  last: the last call.  sort_array, sort_n: the arguments of
\* my_heapsort, the array being a function on 0..n-1; sort_entry: the
\* array on entry; sort_heap: the temporary heap, NULL outside the call;
\* sort_i: the index of the running loop; sort_pc: "main" before the
\* call, then "add", "remove", "delete", and "returned", or "aborted"
\* once an assertion has failed; sort_steps: the loop iterations made.
Init ==
  /\ bst = NULL /\ bst_pre = NULL
  /\ avl = NULL /\ avl_pre = NULL
  /\ rb = NULL /\ rb_pre = NULL
  /\ hp = heap_create /\ hp_pre = heap_create
  /\ hp_status = "running"
  /\ added = [v \in HeapValues |-> 0]
  /\ queue = queue_create /\ queue_pre = queue_create
  /\ queue_status = "running"
  /\ queued = {}
  /\ stored = {}
  /\ sorted_run = 0
  /\ last = [op |-> "create", value |-> 0]
  /\ sort_array = << >> /\ sort_entry = << >>
  /\ sort_n = 0 /\ sort_i = 0 /\ sort_steps = 0
  /\ sort_heap = NULL
  /\ sort_pc = "main"

Added(v) ==
  /\ stored' = stored \cup {v}
  /\ sorted_run' = IF sorted_run >= 0 /\ v = sorted_run + 1 THEN v ELSE -1

Removed(v) ==
  /\ stored' = stored \ {v}
  /\ sorted_run' = -1

BstAdd(v)    == bst' = bst_add_node(v, bst) /\ bst_pre' = bst /\ Added(v)
BstRemove(v) == bst' = bst_remove_node(v, bst) /\ bst_pre' = bst /\ Removed(v)
AvlAdd(v)    == avl' = avl_add_node(v, avl) /\ avl_pre' = avl /\ Added(v)
AvlRemove(v) == avl' = avl_remove_node(v, avl) /\ avl_pre' = avl /\ Removed(v)
RbAdd(v)     == rb' = rb_add_node(v, rb) /\ rb_pre' = rb /\ Added(v)
RbRemove(v)  == rb' = rb_remove_node(v, rb) /\ rb_pre' = rb /\ Removed(v)

\* The AVL tree alone.
AvlAddNode ==
  \E v \in AvlValues :
    /\ AvlAdd(v)
    /\ last' = [op |-> "add", value |-> v]
    /\ UNCHANGED << bst_vars, rb_vars, heap_vars, queue_vars, sort_vars >>

AvlRemoveNode ==
  \E v \in AvlValues :
    /\ AvlRemove(v)
    /\ last' = [op |-> "remove", value |-> v]
    /\ UNCHANGED << bst_vars, rb_vars, heap_vars, queue_vars, sort_vars >>

NextAVL == AvlAddNode \/ AvlRemoveNode

SpecAVL == Init /\ [][NextAVL]_vars

\* The same calls made on the plain BST and on the AVL tree.
AddNode ==
  \E v \in Values :
    /\ BstAdd(v)
    /\ AvlAdd(v)
    /\ last' = [op |-> "add", value |-> v]
    /\ UNCHANGED << rb_vars, heap_vars, queue_vars, sort_vars >>

RemoveNode ==
  \E v \in Values :
    /\ BstRemove(v)
    /\ AvlRemove(v)
    /\ last' = [op |-> "remove", value |-> v]
    /\ UNCHANGED << rb_vars, heap_vars, queue_vars, sort_vars >>

Next == AddNode \/ RemoveNode

Spec == Init /\ [][Next]_vars

\* The red-black tree: insertions only, and insertions and removals.
RbAddNode ==
  \E v \in Values :
    /\ RbAdd(v)
    /\ last' = [op |-> "add", value |-> v]
    /\ UNCHANGED << bst_vars, avl_vars, heap_vars, queue_vars, sort_vars >>

RbRemoveNode ==
  \E v \in Values :
    /\ RbRemove(v)
    /\ last' = [op |-> "remove", value |-> v]
    /\ UNCHANGED << bst_vars, avl_vars, heap_vars, queue_vars, sort_vars >>

RbInsertNode ==
  \E v \in RbAddValues :
    /\ RbAdd(v)
    /\ last' = [op |-> "add", value |-> v]
    /\ UNCHANGED << bst_vars, avl_vars, heap_vars, queue_vars, sort_vars >>

NextRBAdd == RbInsertNode

SpecRBAdd == Init /\ [][NextRBAdd]_vars

NextRB == RbAddNode \/ RbRemoveNode

SpecRB == Init /\ [][NextRB]_vars

\* Largest number of nodes of the subtrees fix_red_black is called on by
\* itself.
MaxFixNodes == 5

\* The search trees of n nodes that hold the values lo, ..., lo + n - 1,
\* with every colouring.
RECURSIVE ColouredTrees(_, _)
ColouredTrees(n, lo) ==
  IF n = 0 THEN {NULL}
  ELSE UNION { { [value |-> lo + k, left |-> l, right |-> r, color |-> c] :
                   l \in ColouredTrees(k, lo),
                   r \in ColouredTrees(n - 1 - k, lo + k + 1),
                   c \in {RED, BLACK} } : k \in 0..(n - 1) }

\* One call of fix_red_black on a subtree of the caller's choice, whether
\* an insertion can build it or not.
RbFixRedBlack ==
  /\ last.op = "create"
  /\ \E n \in 1..MaxFixNodes : \E root \in ColouredTrees(n, 1) :
       /\ rb_pre' = root
       /\ rb' = rb_fix_red_black(root)
  /\ last' = [op |-> "fix_red_black", value |-> 0]
  /\ UNCHANGED << bst_vars, avl_vars, heap_vars, queue_vars, calls, sort_vars >>

NextRBFix == RbFixRedBlack

SpecRBFix == Init /\ [][NextRBFix]_vars

\* main_bst.c linked with one of simple_bst.c, avl_bst.c and rb_bst.c: the
\* first call picks the build, and every later call is made by that build.
Linked(build) == IF last.op = "create" THEN TRUE ELSE last.build = build

SimpleAddNode ==
  /\ Linked("simple_bst")
  /\ \E v \in Values :
       /\ BstAdd(v)
       /\ last' = [op |-> "add", value |-> v, build |-> "simple_bst"]
  /\ UNCHANGED << avl_vars, rb_vars, heap_vars, queue_vars, sort_vars >>

SimpleRemoveNode ==
  /\ Linked("simple_bst")
  /\ \E v \in Values :
       /\ BstRemove(v)
       /\ last' = [op |-> "remove", value |-> v, build |-> "simple_bst"]
  /\ UNCHANGED << avl_vars, rb_vars, heap_vars, queue_vars, sort_vars >>

BalancedAddNode ==
  /\ Linked("avl_bst")
  /\ \E v \in Values :
       /\ AvlAdd(v)
       /\ last' = [op |-> "add", value |-> v, build |-> "avl_bst"]
  /\ UNCHANGED << bst_vars, rb_vars, heap_vars, queue_vars, sort_vars >>

BalancedRemoveNode ==
  /\ Linked("avl_bst")
  /\ \E v \in Values :
       /\ AvlRemove(v)
       /\ last' = [op |-> "remove", value |-> v, build |-> "avl_bst"]
  /\ UNCHANGED << bst_vars, rb_vars, heap_vars, queue_vars, sort_vars >>

ColouredAddNode ==
  /\ Linked("rb_bst")
  /\ \E v \in Values :
       /\ RbAdd(v)
       /\ last' = [op |-> "add", value |-> v, build |-> "rb_bst"]
  /\ UNCHANGED << bst_vars, avl_vars, heap_vars, queue_vars, sort_vars >>

ColouredRemoveNode ==
  /\ Linked("rb_bst")
  /\ \E v \in Values :
       /\ RbRemove(v)
       /\ last' = [op |-> "remove", value |-> v, build |-> "rb_bst"]
  /\ UNCHANGED << bst_vars, avl_vars, heap_vars, queue_vars, sort_vars >>

NextTrees ==
  \/ SimpleAddNode \/ SimpleRemoveNode
  \/ BalancedAddNode \/ BalancedRemoveNode
  \/ ColouredAddNode \/ ColouredRemoveNode

SpecTrees == Init /\ [][NextTrees]_vars

\* main_bst.c linked with simple_bst.c or with avl_bst.c, the keys up to
\* MaxSizeVal.
PlainAddNode ==
  /\ Linked("simple_bst")
  /\ \E v \in SizeValues :
       /\ BstAdd(v)
       /\ last' = [op |-> "add", value |-> v, build |-> "simple_bst"]
  /\ UNCHANGED << avl_vars, rb_vars, heap_vars, queue_vars, sort_vars >>

PlainRemoveNode ==
  /\ Linked("simple_bst")
  /\ \E v \in SizeValues :
       /\ BstRemove(v)
       /\ last' = [op |-> "remove", value |-> v, build |-> "simple_bst"]
  /\ UNCHANGED << avl_vars, rb_vars, heap_vars, queue_vars, sort_vars >>

HeightAddNode ==
  /\ Linked("avl_bst")
  /\ \E v \in SizeValues :
       /\ AvlAdd(v)
       /\ last' = [op |-> "add", value |-> v, build |-> "avl_bst"]
  /\ UNCHANGED << bst_vars, rb_vars, heap_vars, queue_vars, sort_vars >>

HeightRemoveNode ==
  /\ Linked("avl_bst")
  /\ \E v \in SizeValues :
       /\ AvlRemove(v)
       /\ last' = [op |-> "remove", value |-> v, build |-> "avl_bst"]
  /\ UNCHANGED << bst_vars, rb_vars, heap_vars, queue_vars, sort_vars >>

NextSizes ==
  \/ PlainAddNode \/ PlainRemoveNode
  \/ HeightAddNode \/ HeightRemoveNode

SpecSizes == Init /\ [][NextSizes]_vars

\* The heap.  A failed assertion ends the program; so does, in the model,
\* an access outside the array, after which nothing is defined.
\* One call of heap_add, heap_peek, heap_remove by a running program.
HeapAddCall(v) ==
  /\ hp_pre' = hp
  /\ IF ~ heap_add_has_space(hp)
     THEN /\ hp_status' = "aborted"
          /\ UNCHANGED << hp, added >>
     ELSE IF hp.nb_elements \in DOMAIN hp.array
     THEN /\ hp' = heap_add(v, hp)
          /\ added' = BagAdd(added, v)
          /\ UNCHANGED hp_status
     ELSE \* lines 57-58 past the assertion: the slot is outside the array
          /\ hp' = [hp EXCEPT !.nb_elements = @ + 1]
          /\ hp_status' = "undefined"
          /\ UNCHANGED added

\* The value heap_peek returns; 0 when the assertion stops the call.
HeapPeekValue == IF ~ heap_empty(hp) THEN heap_peek(hp) ELSE 0

HeapPeekCall ==
  /\ hp_pre' = hp
  /\ hp_status' = IF ~ heap_empty(hp) THEN hp_status ELSE "aborted"
  /\ UNCHANGED << hp, added >>

HeapRemoveCall ==
  /\ hp_pre' = hp
  /\ \/ /\ hp.nb_elements > 0
        /\ hp' = heap_remove(hp, 0)
        /\ added' = BagRemove(added, BagMax(added))
        /\ UNCHANGED hp_status
     \/ /\ hp.nb_elements = 0
        /\ \E stray \in HeapValues : hp' = heap_remove(hp, stray)
        /\ hp_status' = "undefined"
        /\ UNCHANGED added

HeapAdd ==
  /\ hp_status = "running"
  /\ \E v \in HeapValues :
       /\ last' = [op |-> "heap_add", value |-> v]
       /\ HeapAddCall(v)
  /\ UNCHANGED << bst_vars, avl_vars, rb_vars, calls, queue_vars, sort_vars >>

HeapPeek ==
  /\ hp_status = "running"
  /\ last' = [op |-> "heap_peek", value |-> HeapPeekValue]
  /\ HeapPeekCall
  /\ UNCHANGED << bst_vars, avl_vars, rb_vars, calls, queue_vars, sort_vars >>

HeapRemove ==
  /\ hp_status = "running"
  /\ last' = [op |-> "heap_remove", value |-> 0]
  /\ HeapRemoveCall
  /\ UNCHANGED << bst_vars, avl_vars, rb_vars, calls, queue_vars, sort_vars >>

NextHeap == HeapAdd \/ HeapPeek \/ HeapRemove

SpecHeap == Init /\ [][NextHeap]_vars

\* One call of queue_enqueue, queue_peek, queue_dequeue by a running
\* program.
QueueEnqueueCall(v) ==
  /\ queue_pre' = queue
  /\ queue' = queue_enqueue(v, queue)
  /\ queued' = queued \cup {v}
  /\ UNCHANGED queue_status

\* The value queue_peek returns; 0 when an assertion stops the call.
QueuePeekValue ==
  IF ~ queue_empty(queue) /\ bst_min_value_node_asserts(queue.inner_bst)
  THEN queue_peek(queue) ELSE 0

QueuePeekCall ==
  /\ queue_pre' = queue
  /\ queue_status' =
       IF ~ queue_empty(queue) /\ bst_min_value_node_asserts(queue.inner_bst)
       THEN queue_status ELSE "aborted"
  /\ UNCHANGED << queue, queued >>

\* queue_dequeue asserts, then calls queue_peek, which asserts again.
QueueDequeueCall ==
  /\ queue_pre' = queue
  /\ IF ~ queue_empty(queue) /\ bst_min_value_node_asserts(queue.inner_bst)
     THEN /\ queue' = queue_dequeue(queue)
          /\ queued' = queued \ {CHOOSE v \in queued : \A w \in queued : v <= w}
          /\ UNCHANGED queue_status
     ELSE /\ queue_status' = "aborted"
          /\ UNCHANGED << queue, queued >>

\* The priority queue program.
QueueEnqueue ==
  /\ queue_status = "running"
  /\ \E v \in Values :
       /\ last' = [op |-> "queue_enqueue", value |-> v]
       /\ QueueEnqueueCall(v)
  /\ UNCHANGED << bst_vars, avl_vars, rb_vars, calls, heap_vars, sort_vars >>

QueuePeek ==
  /\ queue_status = "running"
  /\ last' = [op |-> "queue_peek", value |-> QueuePeekValue]
  /\ QueuePeekCall
  /\ UNCHANGED << bst_vars, avl_vars, rb_vars, calls, heap_vars, sort_vars >>

QueueDequeue ==
  /\ queue_status = "running"
  /\ last' = [op |-> "queue_dequeue", value |-> 0]
  /\ QueueDequeueCall
  /\ UNCHANGED << bst_vars, avl_vars, rb_vars, calls, heap_vars, sort_vars >>

NextQueue == QueueEnqueue \/ QueuePeek \/ QueueDequeue

SpecQueue == Init /\ [][NextQueue]_vars

\* The heap program and the priority queue program given the same command
\* line (a number, p, r), as long as both run; and a call of min_value_node
\* on the tree the queue holds.
BothRunning == hp_status = "running" /\ queue_status = "running"

CmdNumber ==
  /\ BothRunning
  /\ \E v \in HeapValues :
       /\ last' = [op |-> "number", value |-> v, queue_value |-> 0]
       /\ HeapAddCall(v)
       /\ QueueEnqueueCall(v)
  /\ UNCHANGED << bst_vars, avl_vars, rb_vars, calls, sort_vars >>

CmdPeek ==
  /\ BothRunning
  /\ last' = [op |-> "p", value |-> HeapPeekValue,
              queue_value |-> QueuePeekValue]
  /\ HeapPeekCall
  /\ QueuePeekCall
  /\ UNCHANGED << bst_vars, avl_vars, rb_vars, calls, sort_vars >>

CmdRemove ==
  /\ BothRunning
  /\ last' = [op |-> "r", value |-> 0, queue_value |-> 0]
  /\ HeapRemoveCall
  /\ QueueDequeueCall
  /\ UNCHANGED << bst_vars, avl_vars, rb_vars, calls, sort_vars >>

MinValueNode ==
  /\ BothRunning
  /\ queue_pre' = queue
  /\ IF bst_min_value_node_asserts(queue.inner_bst)
     THEN /\ last' = [op |-> "min_value_node", value |-> 0,
                      queue_value |-> bst_min_value_node(queue.inner_bst)]
          /\ UNCHANGED queue_status
     ELSE /\ last' = [op |-> "min_value_node", value |-> 0, queue_value |-> 0]
          /\ queue_status' = "aborted"
  /\ UNCHANGED << queue, queued, heap_vars, bst_vars, avl_vars, rb_vars, calls, sort_vars >>

NextCommands == CmdNumber \/ CmdPeek \/ CmdRemove \/ MinValueNode

SpecCommands == Init /\ [][NextCommands]_vars

(***************************************************************************)
(* Heapsort, main_heapsort.c                                               *)
(***************************************************************************)

\* Largest value of the array given to my_heapsort; the values are
\* 1..MaxSortVal.
MaxSortVal == 3

SortValues == 1..MaxSortVal

\* The lengths of the array given to my_heapsort: main sets no limit, so
\* one length past the capacity of the heap is kept.
SortLengths == 0..(HEAP_MAX_SIZE + 1)

\* Mutant: the head is read after it has been removed.
my_heapsort_store_after_remove(array, i, heap) ==
  [array EXCEPT ![i] = heap_peek(heap_remove(heap, 0))]

\* my_heapsort, line 28
my_heapsort_store(array, i, heap) == [array EXCEPT ![i] = heap_peek(heap)]

other_vars == << bst_vars, avl_vars, rb_vars, heap_vars, queue_vars, calls >>

\* main calls my_heapsort(array, n); my_heapsort creates the heap.
HeapsortCall ==
  /\ sort_pc = "main"
  /\ \E n \in SortLengths : \E array \in [0..(n - 1) -> SortValues] :
       /\ sort_array' = array
       /\ sort_entry' = array
       /\ sort_n' = n
  /\ sort_heap' = heap_create
  /\ sort_i' = 0
  /\ sort_pc' = "add"
  /\ last' = [op |-> "my_heapsort", value |-> 0]
  /\ UNCHANGED << sort_steps, other_vars >>

\* One iteration of the first loop, lines 23-25.
HeapsortAdd ==
  /\ sort_pc = "add"
  /\ sort_i < sort_n
  /\ IF heap_add_has_space(sort_heap)
     THEN /\ sort_heap' = heap_add(sort_array[sort_i], sort_heap)
          /\ sort_i' = sort_i + 1
          /\ sort_steps' = sort_steps + 1
          /\ UNCHANGED sort_pc
     ELSE /\ sort_pc' = "aborted"
          /\ UNCHANGED << sort_heap, sort_i, sort_steps >>
  /\ last' = [op |-> "heap_add", value |-> sort_array[sort_i]]
  /\ UNCHANGED << sort_array, sort_n, sort_entry, other_vars >>

\* The first loop ends and the second starts, lines 23 and 27.
HeapsortAdded ==
  /\ sort_pc = "add"
  /\ ~ (sort_i < sort_n)
  /\ sort_i' = sort_n - 1
  /\ sort_pc' = "remove"
  /\ last' = [op |-> "added", value |-> 0]
  /\ UNCHANGED << sort_array, sort_n, sort_entry, sort_heap, sort_steps,
                  other_vars >>

\* One iteration of the second loop, lines 27-30.
HeapsortRemove ==
  /\ sort_pc = "remove"
  /\ sort_i >= 0
  /\ IF ~ heap_empty(sort_heap)
     THEN /\ sort_array' = my_heapsort_store(sort_array, sort_i, sort_heap)
          /\ sort_heap' = heap_remove(sort_heap, 0)
          /\ sort_i' = sort_i - 1
          /\ sort_steps' = sort_steps + 1
          /\ UNCHANGED sort_pc
     ELSE /\ sort_pc' = "aborted"
          /\ UNCHANGED << sort_array, sort_heap, sort_i, sort_steps >>
  /\ last' = [op |-> "heap_remove", value |-> 0]
  /\ UNCHANGED << sort_n, sort_entry, other_vars >>

\* The second loop ends, line 27.
HeapsortRemoved ==
  /\ sort_pc = "remove"
  /\ ~ (sort_i >= 0)
  /\ sort_pc' = "delete"
  /\ last' = [op |-> "removed", value |-> 0]
  /\ UNCHANGED << sort_array, sort_n, sort_entry, sort_heap, sort_i,
                  sort_steps, other_vars >>

\* heap_delete and the return, lines 32-33.
HeapsortDelete ==
  /\ sort_pc = "delete"
  /\ sort_heap' = NULL
  /\ sort_pc' = "returned"
  /\ last' = [op |-> "heap_delete", value |-> 0]
  /\ UNCHANGED << sort_array, sort_n, sort_entry, sort_i, sort_steps,
                  other_vars >>

NextHeapsort ==
  \/ HeapsortCall
  \/ HeapsortAdd
  \/ HeapsortAdded
  \/ HeapsortRemove
  \/ HeapsortRemoved
  \/ HeapsortDelete

SpecHeapsort == Init /\ [][NextHeapsort]_vars

(***************************************************************************)
(* Properties                                                              *)
(***************************************************************************)

\* The height by the recursive definition, an empty subtree counting -1.
RECURSIVE Height(_)
Height(tree) ==
  IF tree = NULL THEN -1 ELSE 1 + max(Height(tree.left), Height(tree.right))

\* The subtrees of a tree, the tree itself included, NULL excluded.
RECURSIVE Nodes(_)
Nodes(tree) ==
  IF tree = NULL THEN {} ELSE {tree} \cup Nodes(tree.left) \cup Nodes(tree.right)

\* The set of the values stored in a tree.
TreeValues(tree) == { n.value : n \in Nodes(tree) }

StrictlyIncreasing(s) == \A i \in 1..(Len(s) - 1) : s[i] < s[i + 1]
StrictlyDecreasing(s) == \A i \in 1..(Len(s) - 1) : s[i] > s[i + 1]

Ordered(tree) ==
  \A n \in Nodes(tree) :
    /\ \A x \in TreeValues(n.left) : x < n.value
    /\ \A x \in TreeValues(n.right) : x > n.value

\* C1: after every add_node and remove_node on the AVL tree, the true
\* heights of the two subtrees of every node differ by at most 1.
AvlBalanced ==
  \A n \in Nodes(avl) :
    LET d == Height(n.left) - Height(n.right) IN -1 <= d /\ d <= 1

\* C1: a removal below the root has put another node at the root (the
\* unwinding rotated the root).
AvlRemoveRotatedRoot ==
  /\ last.op = "remove"
  /\ avl_pre # NULL /\ avl # NULL
  /\ last.value # avl_pre.value
  /\ avl.value # avl_pre.value

\* C2: after every add_node and remove_node on the AVL tree, the height
\* stored in every node is 1 + max of the true heights of its subtrees, so
\* that binary_tree_height returns the true height of the tree.
AvlStoredHeights ==
  /\ \A n \in Nodes(avl) :
       n.height = 1 + max(Height(n.left), Height(n.right))
  /\ avl_binary_tree_height(avl) = Height(avl)

\* C2: an insertion has rotated twice at the root: the inserted value is
\* the new root, between its two children.
AvlAddDoubleRotation ==
  /\ last.op = "add"
  /\ avl # NULL /\ avl.value = last.value
  /\ avl.left # NULL /\ avl.right # NULL
  /\ ~ avl_find_node(last.value, avl_pre)

\* C3: on the plain BST and on the AVL tree, the ascending dump is strictly
\* increasing and the descending dump strictly decreasing; every node has
\* the smaller values to its left and the larger ones to its right.
DumpsSorted ==
  /\ StrictlyIncreasing(bst_dump_tree(bst, TRUE))
  /\ StrictlyDecreasing(bst_dump_tree(bst, FALSE))
  /\ StrictlyIncreasing(avl_dump_tree(avl, TRUE))
  /\ StrictlyDecreasing(avl_dump_tree(avl, FALSE))
  /\ Ordered(bst)
  /\ Ordered(avl)

\* C3: the value of a node with two children was removed from both trees,
\* and at least three values remain.
RemovedTwoChildrenNode ==
  /\ last.op = "remove"
  /\ \E n \in Nodes(bst_pre) :
       n.value = last.value /\ n.left # NULL /\ n.right # NULL
  /\ \E n \in Nodes(avl_pre) :
       n.value = last.value /\ n.left # NULL /\ n.right # NULL
  /\ Len(bst_dump_tree(bst, TRUE)) >= 3
  /\ Len(avl_dump_tree(avl, TRUE)) >= 3

\* C4: on the plain BST and on the AVL tree, find_node(v) is true after
\* add_node(v) and false after remove_node(v), and find_node(w) is
\* unchanged by the call for every other value w.
RoundTrip ==
  /\ last.op = "add" =>
       /\ bst_find_node(last.value, bst)
       /\ avl_find_node(last.value, avl)
  /\ last.op = "remove" =>
       /\ ~ bst_find_node(last.value, bst)
       /\ ~ avl_find_node(last.value, avl)
  /\ last.op \in {"add", "remove"} =>
       \A w \in Values \ {last.value} :
         /\ bst_find_node(w, bst) = bst_find_node(w, bst_pre)
         /\ avl_find_node(w, avl) = avl_find_node(w, avl_pre)

\* C4: a stored value was removed from trees that held at least three more
\* values, one of them found before and after.
RemovedStoredValue ==
  /\ last.op = "remove"
  /\ bst_find_node(last.value, bst_pre)
  /\ avl_find_node(last.value, avl_pre)
  /\ bst_binary_tree_nodes(bst) >= 3
  /\ avl_binary_tree_nodes(avl) >= 3
  /\ \E w \in Values \ {last.value} :
       bst_find_node(w, bst) /\ avl_find_node(w, avl)

\* The number of BLACK nodes on the paths from a tree down to an empty
\* position: the set of the counts over all the paths.
RECURSIVE BlackCounts(_)
BlackCounts(tree) ==
  IF tree = NULL THEN {0}
  ELSE { c + (IF tree.color = BLACK THEN 1 ELSE 0) :
           c \in BlackCounts(tree.left) \cup BlackCounts(tree.right) }

NoRedRed(tree) ==
  \A n \in Nodes(tree) :
    n.color = RED =>
      /\ n.left = NULL \/ n.left.color = BLACK
      /\ n.right = NULL \/ n.right.color = BLACK

SameBlackCount(tree) ==
  \A n \in Nodes(tree) : Cardinality(BlackCounts(n)) = 1

RootBlack(tree) == tree = NULL \/ tree.color = BLACK

RedBlack(tree) == NoRedRed(tree) /\ SameBlackCount(tree) /\ RootBlack(tree)

\* C5: after every add_node of a sequence of insertions into the red-black
\* tree, no RED node has a RED child, all the paths from a node down to an
\* empty position hold the same number of BLACK nodes, the root is BLACK.
RbInsertInvariant == RedBlack(rb)

\* C5: an insertion has repaired a RED node with a RED child below the
\* root of a tree of at least six nodes, and a RED node remains.
RbInsertRepaired ==
  /\ last.op = "add"
  /\ rb_binary_tree_nodes(rb) >= 6
  /\ rb.value # rb_pre.value
  /\ \E n \in Nodes(rb) : n.color = RED

\* C6: remove_node(v) on the red-black tree leaves exactly the values
\* stored before the call, less v.
RbRemoveKeepsOthers ==
  last.op = "remove" => TreeValues(rb) = TreeValues(rb_pre) \ {last.value}

\* C7: remove_node on a red-black tree that satisfies the red-black
\* invariants returns a tree that satisfies them.
RbRemoveKeepsInvariant ==
  (last.op = "remove" /\ RedBlack(rb_pre)) => RedBlack(rb)

\* The multiset of the values in the slots 0 .. nb_elements-1.
HeapBag(heap) ==
  [v \in HeapValues |->
     Cardinality({ i \in 0..(heap.nb_elements - 1) : heap.array[i] = v })]

\* C8: while no heap_remove was called on an empty heap, heap_peek returns
\* the largest of the values added and not yet removed, and heap_remove
\* takes one occurrence of that largest value out of the stored values and
\* nothing else.
HeapPeekIsMax ==
  hp_status = "running" =>
    /\ ~ heap_empty(hp) => heap_peek(hp) = BagMax(added)
    /\ last.op = "heap_remove" =>
         HeapBag(hp) = BagRemove(HeapBag(hp_pre), heap_peek(hp_pre))
    /\ last.op = "heap_peek" => last.value = BagMax(added)

\* C8: 4, 5, 6, 6, 7 were added in that order, which leaves 7, 6, 5, 4, 6 in
\* the array; the 7 was peeked at and removed, and 6 is now at the top with
\* 4, 5, 6, 6 stored.
HeapScenario ==
  /\ last.op = "heap_remove"
  /\ hp_status = "running"
  /\ hp_pre.nb_elements = 5
  /\ << hp_pre.array[0], hp_pre.array[1], hp_pre.array[2],
        hp_pre.array[3], hp_pre.array[4] >> = << 7, 6, 5, 4, 6 >>
  /\ heap_peek(hp_pre) = 7
  /\ added = [v \in HeapValues |-> IF v = 6 THEN 2 ELSE IF v \in {4, 5} THEN 1 ELSE 0]
  /\ HeapBag(hp) = added
  /\ heap_peek(hp) = 6

\* C9: while no heap_remove was called on an empty heap, every slot i with
\* 0 < i < nb_elements holds at most what its parent (i-1)/2 holds, and the
\* slots 0 .. nb_elements-1 hold exactly the values added and not removed.
HeapInvariant ==
  hp_status = "running" =>
    /\ \A i \in 1..(hp.nb_elements - 1) :
         hp.array[(i - 1) \div 2] >= hp.array[i]
    /\ hp.nb_elements = BagSize(added)
    /\ HeapBag(hp) = added

\* C9: a removal from a heap of five values has moved the last value down
\* two levels.
HeapSiftedDown ==
  /\ last.op = "heap_remove"
  /\ hp_status = "running"
  /\ hp.nb_elements = 4
  /\ hp.array[3] = hp_pre.array[4]
  /\ hp.array[3] < hp.array[1]

\* C10: heap_remove on an empty heap stops at an assertion, with
\* nb_elements still 0 and the array as it was.
HeapRemoveEmptyAsserts ==
  (last.op = "heap_remove" /\ hp_pre.nb_elements = 0) =>
    /\ hp_status = "aborted"
    /\ hp.nb_elements = 0
    /\ hp.array = hp_pre.array

\* C11: nb_elements never exceeds HEAP_MAX_SIZE; heap_add on a heap that
\* holds HEAP_MAX_SIZE elements fails its assertion and leaves the array and
\* nb_elements as they were; a heap_add that changes the heap writes the
\* slot nb_elements of an array that has this slot.
HeapCapacity ==
  /\ hp.nb_elements <= HEAP_MAX_SIZE
  /\ DOMAIN hp.array = 0..(HEAP_MAX_SIZE - 1)
  /\ (last.op = "heap_add" /\ hp_pre.nb_elements >= HEAP_MAX_SIZE) =>
       hp_status = "aborted" /\ hp = hp_pre
  /\ (last.op = "heap_add" /\ hp.nb_elements # hp_pre.nb_elements) =>
       /\ hp_pre.nb_elements \in 0..(HEAP_MAX_SIZE - 1)
       /\ hp.nb_elements = hp_pre.nb_elements + 1

\* C11: heap_add was called on a heap whose HEAP_MAX_SIZE slots are all in
\* use.
HeapAddOnFullHeap ==
  /\ last.op = "heap_add"
  /\ hp_pre.nb_elements = HEAP_MAX_SIZE
  /\ \A i \in DOMAIN hp_pre.array : hp_pre.array[i] \in HeapValues
  /\ hp_status = "aborted"

\* The smallest element of a set of integers that is not empty.
SetMin(S) == CHOOSE v \in S : \A w \in S : v <= w

\* C12: while no assertion has failed, the queue stores exactly the values
\* enqueued and not yet dequeued; queue_peek returns the smallest of them
\* and leaves the queue as it is; queue_dequeue on a queue that is not
\* empty takes that smallest value out and no other.
QueueHeadIsMin ==
  queue_status = "running" =>
    /\ TreeValues(queue.inner_bst) = queued
    /\ last.op = "queue_peek" =>
         /\ last.value = SetMin(queued)
         /\ queue = queue_pre
    /\ last.op = "queue_dequeue" =>
         /\ TreeValues(queue_pre.inner_bst) # {}
         /\ TreeValues(queue.inner_bst) =
              TreeValues(queue_pre.inner_bst)
                \ {SetMin(TreeValues(queue_pre.inner_bst))}
    /\ ~ queue_empty(queue) => queue_peek(queue) = SetMin(queued)

\* C12: 4 then 5 were enqueued, which leaves 4 at the root and 5 to its
\* right; the 4 was dequeued and a peek now gives 5.
QueueScenario ==
  /\ last.op = "queue_dequeue"
  /\ queue_status = "running"
  /\ queue_pre.inner_bst =
       [value |-> 4, left |-> NULL,
        right |-> [value |-> 5, left |-> NULL, right |-> NULL]]
  /\ queue_peek(queue_pre) = 4
  /\ queued = {5}
  /\ queue_peek(queue) = 5

\* C13: heap_peek on a heap with nb_elements = 0, and queue_peek,
\* queue_dequeue and min_value_node on a queue (a tree) without elements,
\* stop at an assertion: the program is aborted, no value is returned and
\* the container is as it was.
EmptyQueriesAbort ==
  /\ (last.op = "p" /\ hp_pre.nb_elements = 0) =>
       /\ hp_status = "aborted"
       /\ last.value = 0
       /\ hp = hp_pre
  /\ (last.op \in {"p", "r", "min_value_node"} /\ queue_pre.inner_bst = NULL) =>
       /\ queue_status = "aborted"
       /\ last.queue_value = 0
       /\ queue = queue_pre
  /\ (last.op \in {"p", "min_value_node"} /\ queue_pre.inner_bst # NULL) =>
       /\ queue_status = "running"
       /\ last.queue_value \in TreeValues(queue_pre.inner_bst)

\* C13: p was given to a heap and to a queue that hold nothing, and has
\* stopped both programs.
PeekOnEmptyContainers ==
  /\ last.op = "p"
  /\ heap_empty(hp_pre)
  /\ queue_empty(queue_pre)
  /\ hp_status = "aborted" /\ queue_status = "aborted"
  /\ hp = hp_pre /\ queue = queue_pre

\* The tree of the build that made the last call, and that tree before the
\* call.
Tree(build) ==
  IF build = "simple_bst" THEN bst ELSE IF build = "avl_bst" THEN avl ELSE rb

TreePre(build) ==
  IF build = "simple_bst" THEN bst_pre
  ELSE IF build = "avl_bst" THEN avl_pre ELSE rb_pre

\* C14: on every tree one of the three builds reaches, remove_node of a
\* value the tree does not store returns the tree as it is: same shape,
\* same values, same AVL heights, same colours, hence the same node count
\* and the same dumps.
RemoveAbsentNoOp ==
  /\ \A v \in Values \ TreeValues(bst) :
       /\ bst_remove_node(v, bst) = bst
       /\ bst_binary_tree_nodes(bst_remove_node(v, bst)) = bst_binary_tree_nodes(bst)
       /\ bst_dump_tree(bst_remove_node(v, bst), TRUE) = bst_dump_tree(bst, TRUE)
  /\ \A v \in Values \ TreeValues(avl) :
       /\ avl_remove_node(v, avl) = avl
       /\ avl_binary_tree_nodes(avl_remove_node(v, avl)) = avl_binary_tree_nodes(avl)
       /\ avl_dump_tree(avl_remove_node(v, avl), TRUE) = avl_dump_tree(avl, TRUE)
  /\ \A v \in Values \ TreeValues(rb) :
       /\ rb_remove_node(v, rb) = rb
       /\ rb_binary_tree_nodes(rb_remove_node(v, rb)) = rb_binary_tree_nodes(rb)
  /\ last.op = "remove" =>
       (last.value \notin TreeValues(TreePre(last.build)) =>
          Tree(last.build) = TreePre(last.build))

\* C14: the red-black build was asked to remove a value it did not store,
\* lying between stored values, from a tree of at least four nodes, one
\* of them RED.
RemovedAbsentValue ==
  /\ last.op = "remove" /\ last.build = "rb_bst"
  /\ last.value \notin TreeValues(rb_pre)
  /\ rb_binary_tree_nodes(rb_pre) >= 4
  /\ \E x, y \in TreeValues(rb_pre) : x < last.value /\ last.value < y
  /\ \E n \in Nodes(rb_pre) : n.color = RED
  /\ rb = rb_pre

\* C15: on every tree one of the three builds reaches, add_node of a value
\* the tree stores returns the tree as it is: same shape, same values, same
\* node count, same AVL heights, same colours.
AddStoredNoOp ==
  /\ \A v \in TreeValues(bst) :
       /\ bst_add_node(v, bst) = bst
       /\ bst_binary_tree_nodes(bst_add_node(v, bst)) = bst_binary_tree_nodes(bst)
  /\ \A v \in TreeValues(avl) :
       /\ avl_add_node(v, avl) = avl
       /\ avl_binary_tree_nodes(avl_add_node(v, avl)) = avl_binary_tree_nodes(avl)
  /\ \A v \in TreeValues(rb) :
       /\ rb_add_node(v, rb) = rb
       /\ rb_binary_tree_nodes(rb_add_node(v, rb)) = rb_binary_tree_nodes(rb)
  /\ last.op = "add" =>
       (last.value \in TreeValues(TreePre(last.build)) =>
          Tree(last.build) = TreePre(last.build))

\* C15: the AVL build was asked to add a value it stored below the root of
\* a tree of at least four nodes.
AddedStoredValue ==
  /\ last.op = "add" /\ last.build = "avl_bst"
  /\ last.value \in TreeValues(avl_pre)
  /\ avl_binary_tree_nodes(avl_pre) >= 4
  /\ last.value # avl_pre.value
  /\ avl = avl_pre

\* The number of nodes of a tree of a build, and the number of calls of
\* free that remove_node makes on it.
NodeCount(build, tree) ==
  IF build = "simple_bst" THEN bst_binary_tree_nodes(tree)
  ELSE IF build = "avl_bst" THEN avl_binary_tree_nodes(tree)
  ELSE rb_binary_tree_nodes(tree)

Frees(build, value, tree) ==
  IF build = "simple_bst" THEN bst_remove_node_frees(value, tree)
  ELSE IF build = "avl_bst" THEN avl_remove_node_frees(value, tree)
  ELSE rb_remove_node_frees(value, tree)

\* C16: remove_node of each build frees as many nodes as it takes out of the
\* tree: the nodes of the tree before the call are those of the returned
\* tree and the freed ones, so that no node leaves the tree without being
\* released and none is released twice.
RemoveFreesExcisedNodes ==
  last.op = "remove" =>
    NodeCount(last.build, TreePre(last.build))
      = NodeCount(last.build, Tree(last.build))
          + Frees(last.build, last.value, TreePre(last.build))

\* C16 for the plain BST and the AVL builds alone.
RemoveFreesExcisedNodesUnbalancedAndAvl ==
  (last.op = "remove" /\ last.build # "rb_bst") => RemoveFreesExcisedNodes

\* A plain tree as a tree of avl_bst.c: each node carries its height.
RECURSIVE WithHeights(_)
WithHeights(tree) ==
  IF tree = NULL THEN NULL
  ELSE [value |-> tree.value, height |-> Height(tree),
        left |-> WithHeights(tree.left), right |-> WithHeights(tree.right)]

\* The ascending sequence of the values of a tree of rb_bst.c.
RECURSIVE InOrder(_)
InOrder(tree) ==
  IF tree = NULL THEN << >>
  ELSE InOrder(tree.left) \o << tree.value >> \o InOrder(tree.right)

\* The nodes the rotations of avl_bst.c are applied to: the nodes of the AVL
\* tree, and the nodes of the plain tree, of any shape, with their heights.
RotationInputs == Nodes(avl) \cup { WithHeights(n) : n \in Nodes(bst) }

RECURSIVE Depths(_, _)
Depths(tree, d) ==
  IF tree = NULL THEN {}
  ELSE {d} \cup Depths(tree.left, d + 1) \cup Depths(tree.right, d + 1)

LongestPath(tree) ==
  CHOOSE d \in Depths(tree, 0) : \A e \in Depths(tree, 0) : e <= d

RECURSIVE Perfect(_, _)
Perfect(tree, h) ==
  IF h < 0 THEN tree = NULL
  ELSE tree # NULL /\ Perfect(tree.left, h - 1) /\ Perfect(tree.right, h - 1)

\* Largest k of the sorted runs 1, 2, ..., 2^k - 1 added to the empty AVL
\* tree before the first call of the program.
MaxRunK == 5

\* The AVL tree after add_node of i, i + 1, ..., n in this order on tree;
\* add_node returns a node, never NULL.
RECURSIVE SortedRunFrom(_, _, _)
SortedRunFrom(tree, i, n) ==
  IF i > n THEN tree
  ELSE LET t == avl_add_node(i, tree)
       IN IF t = NULL THEN t ELSE SortedRunFrom(t, i + 1, n)

SortedRun(n) == SortedRunFrom(NULL, 1, n)

\* C20: when the calls made on the AVL tree are add_node of 1, 2, ...,
\* 2^k - 1 in this order, the tree is perfect, of height k - 1, with
\* 2^k - 1 nodes; so is, computed on the empty tree the program starts
\* with, the tree of every such run up to k = MaxRunK.
AvlSortedRunIsPerfect ==
  /\ \A k \in 1..MaxAvlVal :
       sorted_run = 2^k - 1 =>
         /\ avl = SortedRun(2^k - 1)
         /\ Perfect(avl, k - 1)
         /\ avl_binary_tree_height(avl) = k - 1
         /\ avl_binary_tree_nodes(avl) = 2^k - 1
         /\ avl_dump_tree(avl, TRUE) = [i \in 1..(2^k - 1) |-> i]
  /\ sorted_run = 0 =>
       \A k \in 1..MaxRunK :
         /\ Perfect(SortedRun(2^k - 1), k - 1)
         /\ avl_binary_tree_height(SortedRun(2^k - 1)) = k - 1
         /\ avl_binary_tree_nodes(SortedRun(2^k - 1)) = 2^k - 1

\* C20: 1, 2, ..., 7 were added in this order: the height is 2 and the node
\* count 7, with 4 at the root.
AvlSortedRunOfSeven ==
  /\ sorted_run = 7
  /\ last.op = "add" /\ last.value = 7
  /\ avl.value = 4
  /\ avl_binary_tree_height(avl) = 2
  /\ avl_binary_tree_nodes(avl) = 7

\* The least number of nodes of an AVL tree of height h.
RECURSIVE MinNodes(_)
MinNodes(h) ==
  IF h < 0 THEN 0
  ELSE IF h = 0 THEN 1
  ELSE 1 + MinNodes(h - 1) + MinNodes(h - 2)

\* C21: in every state of the AVL tree, each subtree of height h holds at
\* least N(h) nodes, N(-1) = 0, N(0) = 1, N(h) = 1 + N(h-1) + N(h-2); so
\* fewer than 4 nodes give a height of 1 at most, fewer than 7 a height of
\* 2 at most and fewer than 12 a height of 3 at most.
AvlLogarithmicHeight ==
  /\ \A n \in Nodes(avl) :
       /\ avl_binary_tree_nodes(n) >= MinNodes(avl_binary_tree_height(n))
       /\ avl_binary_tree_nodes(n) >= MinNodes(Height(n))
  /\ avl_binary_tree_nodes(avl) >= MinNodes(avl_binary_tree_height(avl))
  /\ avl_binary_tree_nodes(avl) < 4 => avl_binary_tree_height(avl) <= 1
  /\ avl_binary_tree_nodes(avl) < 7 => avl_binary_tree_height(avl) <= 2
  /\ avl_binary_tree_nodes(avl) < 12 => avl_binary_tree_height(avl) <= 3

\* C21: a removal has left an AVL tree of height 3 with the 7 nodes that
\* this height needs at least.
AvlSparsestOfHeightThree ==
  /\ last.op = "remove"
  /\ avl_binary_tree_height(avl) = 3
  /\ avl_binary_tree_nodes(avl) = 7
  /\ MinNodes(3) = 7

\* The number of slots of the array that hold v.
Occurrences(array, v) == Cardinality({i \in DOMAIN array : array[i] = v})

\* C22: a call of my_heapsort with 0 <= n <= HEAP_MAX_SIZE makes at most
\* 2n loop iterations, can always take its next step until it has
\* returned, and never fails an assertion; once the second loop has ended
\* array[0..n-1] is in non-decreasing order and holds each value as many
\* times as on entry, and the heap is empty when it is deleted.
HeapsortSorts ==
  (sort_pc # "main" /\ sort_n <= HEAP_MAX_SIZE) =>
    /\ sort_pc # "aborted"
    /\ sort_steps <= 2 * sort_n
    /\ sort_pc # "returned" => ENABLED NextHeapsort
    /\ sort_pc \in {"delete", "returned"} =>
         /\ \A i \in 0..(sort_n - 2) : sort_array[i] <= sort_array[i + 1]
         /\ DOMAIN sort_array = 0..(sort_n - 1)
         /\ \A v \in SortValues :
              Occurrences(sort_array, v) = Occurrences(sort_entry, v)
    /\ sort_pc = "delete" => heap_empty(sort_heap)

\* C22: my_heapsort has returned from a call with n = HEAP_MAX_SIZE on an
\* array that was not sorted and held a value twice.
HeapsortOfFullArray ==
  /\ sort_pc = "returned"
  /\ sort_n = HEAP_MAX_SIZE
  /\ sort_array # sort_entry
  /\ \E i, j \in 0..(sort_n - 1) : i # j /\ sort_entry[i] = sort_entry[j]
  /\ \E i \in 0..(sort_n - 2) : sort_entry[i] > sort_entry[i + 1]

\* The right rotation of a node with a left child, and the left rotation of
\* a node with a right child, the heights left to be recomputed.
RotatedRight(t) ==
  [value |-> t.left.value, height |-> 0, left |-> t.left.left,
   right |-> [value |-> t.value, height |-> 0,
              left |-> t.left.right, right |-> t.right]]

RotatedLeft(t) ==
  [value |-> t.right.value, height |-> 0, right |-> t.right.right,
   left |-> [value |-> t.value, height |-> 0,
             left |-> t.left, right |-> t.right.left]]

BalancedEverywhere(tree) ==
  \A n \in Nodes(tree) :
    LET d == Height(n.left) - Height(n.right) IN -1 <= d /\ d <= 1

\* C23: on every unwind step of an AVL removal whose left side is taller
\* by more than 1, the step returns the right rotation of the subtree when
\* height(left.left) >= height(left.right), and otherwise the right
\* rotation taken after the left rotation of the left child; the mirror
\* image when the right side is taller by more than 1; in each case every
\* node of the returned subtree is balanced, and a step that finds no such
\* difference relinks nothing.
AvlRemoveRebalancingRule ==
  last.op = "remove" =>
    \A t \in avl_remove_unwind(last.value, avl_pre) :
      LET r == avl_remove_rebalance(t)
          d == Height(t.left) - Height(t.right)
      IN /\ d > 1 =>
              /\ r = WithHeights(
                       IF Height(t.left.left) >= Height(t.left.right)
                       THEN RotatedRight(t)
                       ELSE RotatedRight([t EXCEPT !.left = RotatedLeft(t.left)]))
              /\ BalancedEverywhere(r)
         /\ d < -1 =>
              /\ r = WithHeights(
                       IF Height(t.right.right) >= Height(t.right.left)
                       THEN RotatedLeft(t)
                       ELSE RotatedLeft([t EXCEPT !.right = RotatedRight(t.right)]))
              /\ BalancedEverywhere(r)
         /\ (-1 <= d /\ d <= 1) => r = WithHeights(t)

\* C23: an unwind step of a removal found its left side taller by more
\* than 1 and the left child leaning to the right (the double rotation).
AvlRemoveDoubleRotation ==
  /\ last.op = "remove"
  /\ \E t \in avl_remove_unwind(last.value, avl_pre) :
       /\ Height(t.left) - Height(t.right) > 1
       /\ Height(t.left.left) < Height(t.left.right)

\* The four patterns fix_red_black looks for: a RED child with a RED child.
LeftLeft(root) ==
  /\ root.left # NULL /\ root.left.color = RED
  /\ root.left.left # NULL /\ root.left.left.color = RED

LeftRight(root) ==
  /\ root.left # NULL /\ root.left.color = RED
  /\ root.left.right # NULL /\ root.left.right.color = RED

RightRight(root) ==
  /\ root.right # NULL /\ root.right.color = RED
  /\ root.right.right # NULL /\ root.right.right.color = RED

RightLeft(root) ==
  /\ root.right # NULL /\ root.right.color = RED
  /\ root.right.left # NULL /\ root.right.left.color = RED

\* The numbers of BLACK nodes of the paths from the root to the empty
\* positions, from the leftmost position to the rightmost.
RECURSIVE PathBlacks(_)
PathBlacks(tree) ==
  IF tree = NULL THEN << 0 >>
  ELSE LET below == PathBlacks(tree.left) \o PathBlacks(tree.right)
       IN [i \in 1..Len(below) |->
             below[i] + (IF tree.color = BLACK THEN 1 ELSE 0)]

\* The values whose node has not the same colour in the two trees.
Recoloured(before, after) ==
  { n.value : n \in { m \in Nodes(before) :
      \E k \in Nodes(after) : k.value = m.value /\ k.color # m.color } }

\* C24: fix_red_black applies the first pattern that matches in the order
\* left-left, left-right, right-right, right-left, and only that one: the
\* node it returns and the single node it recolours are those of that
\* pattern.  On a BLACK subtree root with a matching pattern the returned
\* subtree has a RED root with two BLACK children, the same ascending
\* sequence of values and the same number of BLACK nodes on every path
\* from the root to an empty position.  With no matching pattern the
\* subtree is returned as it was given.
RbFixFirstPattern ==
  last.op = "fix_red_black" =>
    LET root == rb_pre
        r == rb
    IN /\ InOrder(r) = InOrder(root)
       /\ IF LeftLeft(root)
          THEN /\ r.value = root.left.value
               /\ Recoloured(root, r) = {root.left.left.value}
          ELSE IF LeftRight(root)
          THEN /\ r.value = root.left.right.value
               /\ Recoloured(root, r) = {root.left.value}
          ELSE IF RightRight(root)
          THEN /\ r.value = root.right.value
               /\ Recoloured(root, r) = {root.right.right.value}
          ELSE IF RightLeft(root)
          THEN /\ r.value = root.right.left.value
               /\ Recoloured(root, r) = {root.right.value}
          ELSE r = root
       /\ ( /\ root.color = BLACK
            /\ LeftLeft(root) \/ LeftRight(root) \/ RightRight(root)
                 \/ RightLeft(root) ) =>
            /\ r.color = RED
            /\ r.left # NULL /\ r.left.color = BLACK
            /\ r.right # NULL /\ r.right.color = BLACK
            /\ PathBlacks(r) = PathBlacks(root)

\* C24: fix_red_black was given a BLACK subtree root where a pattern of
\* the left side and a pattern of the right side both match, and has
\* returned the left child as the new root.
RbFixTwoPatterns ==
  /\ last.op = "fix_red_black"
  /\ rb_pre.color = BLACK
  /\ LeftLeft(rb_pre)
  /\ RightRight(rb_pre) \/ RightLeft(rb_pre)
  /\ rb.value = rb_pre.left.value

\* The links that lead from the root of a tree to the node that holds
\* value, NoNode when no node holds it.
RECURSIVE SearchPath(_, _)
SearchPath(value, tree) ==
  IF tree = NULL THEN NoNode
  ELSE IF value < tree.value THEN Below("left", SearchPath(value, tree.left))
  ELSE IF value > tree.value THEN Below("right", SearchPath(value, tree.right))
  ELSE << >>

\* The node that holds value is BLACK and has one child, which is RED.
BlackWithOneRedChild(node) ==
  /\ node.color = BLACK
  /\ \/ node.left = NULL /\ node.right # NULL /\ node.right.color = RED
     \/ node.right = NULL /\ node.left # NULL /\ node.left.color = RED

\* C25: when remove_node of the red-black tree finds the value in a BLACK
\* node whose single child is RED, the tree it returns is the former tree
\* with that child, recoloured BLACK, in the place of the node; one node
\* is freed; and each path through that place holds as many BLACK nodes
\* as it did (the path to the empty side of the removed node is gone).
RbRemoveBlackWithRedChild ==
  (last.op = "remove" /\ SearchPath(last.value, rb_pre) # NoNode) =>
    LET path == SearchPath(last.value, rb_pre)
        node == NodeAt(rb_pre, path)
        child == IF node.left = NULL THEN node.right ELSE node.left
        blacks == PathBlacks(node)
    IN BlackWithOneRedChild(node) =>
         /\ rb = StoreAt(rb_pre, path, [child EXCEPT !.color = BLACK])
         /\ NodeAt(rb, path).color = BLACK
         /\ NodeAt(rb, path).value = child.value
         /\ rb_remove_node_frees(last.value, rb_pre) = 1
         /\ TreeValues(rb) = TreeValues(rb_pre) \ {last.value}
         /\ PathBlacks(NodeAt(rb, path)) =
              IF node.left = NULL THEN Tail(blacks)
              ELSE SubSeq(blacks, 1, Len(blacks) - 1)
         /\ Cardinality(BlackCounts(node)) = 1 =>
              BlackCounts(NodeAt(rb, path)) = BlackCounts(node)

\* C25: a BLACK node below the root, whose single child was RED, has been
\* removed from the red-black tree.
RbRemovedBlackWithRedChild ==
  /\ last.op = "remove"
  /\ SearchPath(last.value, rb_pre) \notin {NoNode, << >>}
  /\ BlackWithOneRedChild(NodeAt(rb_pre, SearchPath(last.value, rb_pre)))

\* C26: after every add_node and remove_node of a mixed sequence on the
\* red-black tree, the tree is empty or its root is BLACK; yet remove_node
\* sets no colour on the root it returns: called on a subtree with a RED
\* root for a value held elsewhere, it returns that root RED.
RbRootBlackAlways ==
  /\ RootBlack(rb)
  /\ \A n \in Nodes(rb) :
       n.color = RED =>
         \A v \in Values \ {n.value} :
           LET r == rb_remove_node(v, n) IN r # NULL /\ r.color = RED

\* C26: the root of the red-black tree, BLACK with a single RED child, has
\* been removed, and that child is the new root.
RbRemovedRoot ==
  /\ last.op = "remove"
  /\ rb_pre # NULL /\ rb # NULL
  /\ last.value = rb_pre.value
  /\ BlackWithOneRedChild(rb_pre)
  /\ rb.value # rb_pre.value

TooTall(t) ==
  LET d == avl_binary_tree_height(t.left) - avl_binary_tree_height(t.right)
  IN d > 1 \/ d < -1

\* C28: a call of add_node on the AVL tree rotates at one node of the
\* insertion path at most: once a call of the recursion has found one side
\* taller by more than 1 and rotated, no call above it finds such a
\* difference, and the calls that find none return their subtree as it is.
AvlAddRotatesOnce ==
  last.op = "add" =>
    LET steps == avl_add_unwind(last.value, avl_pre)
    IN /\ Cardinality({ i \in 1..Len(steps) : TooTall(steps[i]) }) <= 1
       /\ \A i \in 1..Len(steps) :
            /\ TooTall(steps[i]) =>
                 \A j \in (i + 1)..Len(steps) :
                   LET d == Height(steps[j].left) - Height(steps[j].right)
                   IN -1 <= d /\ d <= 1
            /\ ~ TooTall(steps[i]) =>
                 WithHeights(avl_add_rebalance(last.value, steps[i]))
                   = WithHeights(steps[i])
       /\ avl = avl_add_rebalance(last.value, steps[Len(steps)])

\* C28: an insertion has rotated a subtree two levels below the root, and
\* the two calls above it have found their two sides within 1.
AvlAddRotatedBelow ==
  /\ last.op = "add"
  /\ LET steps == avl_add_unwind(last.value, avl_pre)
     IN \E i \in 1..Len(steps) :
          /\ TooTall(steps[i])
          /\ Len(steps) >= i + 2

\* Largest number of times in a row one value is enqueued.
MaxEnqueues == 3

\* The queue after k calls of queue_enqueue with the same value.
RECURSIVE EnqueueTimes(_, _, _)
EnqueueTimes(value, k, q) ==
  IF k = 0 THEN q ELSE EnqueueTimes(value, k - 1, queue_enqueue(value, q))

\* The number of calls of queue_dequeue it takes to empty the queue.
RECURSIVE DequeuesLeft(_)
DequeuesLeft(q) ==
  IF queue_empty(q) THEN 0 ELSE 1 + DequeuesLeft(queue_dequeue(q))

\* C29: the priority queue on the plain BST stores a set: it holds one
\* node for each distinct value enqueued and not yet dequeued, and can be
\* dequeued that many times; queue_enqueue of a value it holds leaves it
\* as it is, so that after k >= 1 calls of queue_enqueue with a value v
\* the queue is the queue after one such call, and the queue_dequeue that
\* takes v out leaves no v in the queue.
QueueStoresSet ==
  queue_status = "running" =>
    /\ TreeValues(queue.inner_bst) = queued
    /\ bst_binary_tree_nodes(queue.inner_bst) = Cardinality(queued)
    /\ DequeuesLeft(queue) = Cardinality(queued)
    /\ (last.op = "queue_enqueue"
          /\ last.value \in TreeValues(queue_pre.inner_bst)) => queue = queue_pre
    /\ \A v \in Values : \A k \in 1..MaxEnqueues :
         LET q == EnqueueTimes(v, k, queue)
         IN /\ q = queue_enqueue(v, queue)
            /\ DequeuesLeft(q) = Cardinality(queued \cup {v})
            /\ queue_peek(q) = v =>
                 v \notin TreeValues(queue_dequeue(q).inner_bst)

\* C29: the smallest value of a queue of three values has been enqueued
\* once more.
QueueEnqueuedTwice ==
  /\ last.op = "queue_enqueue"
  /\ queue_status = "running"
  /\ Cardinality(queued) = 3
  /\ last.value \in TreeValues(queue_pre.inner_bst)
  /\ queue_peek(queue) = last.value

\* The elements of a finite set of integers in ascending order.
RECURSIVE SortedListing(_)
SortedListing(S) ==
  IF S = {} THEN << >>
  ELSE << SetMin(S) >> \o SortedListing(S \ {SetMin(S)})

\* C30: after every call of a sequence of add_node and remove_node made on
\* the plain BST and on the AVL tree alike, the two trees store the set of
\* the values added and not removed since, their ascending dumps are the
\* same sequence, the sorted listing of that set, and find_node answers on
\* both, for every value, whether the value is in that set.
AvlAndBstSameSet ==
  /\ TreeValues(bst) = stored
  /\ TreeValues(avl) = stored
  /\ bst_dump_tree(bst, TRUE) = avl_dump_tree(avl, TRUE)
  /\ avl_dump_tree(avl, TRUE) = SortedListing(stored)
  /\ \A v \in Values :
       /\ bst_find_node(v, bst) = avl_find_node(v, avl)
       /\ avl_find_node(v, avl) = (v \in stored)

\* C30: after a removal the two trees hold the same five values under two
\* different roots, the plain BST being taller.
AvlAndBstDifferentShapes ==
  /\ last.op = "remove"
  /\ Cardinality(stored) = 5
  /\ bst.value # avl.value
  /\ bst_binary_tree_height(bst) > avl_binary_tree_height(avl)
  /\ last.value \in TreeValues(bst_pre)

=============================================================================
